---- MODULE Spec2Model ----
(***************************************************************************)
(* qAeroChart: the profile geometry engine (core/profile_chart_geometry.py), *)
(* the layer population that consumes it (core/layer_manager.py), the       *)
(* profile store (core/profile_manager.py), the map tool manager            *)
(* (tools/profile_point_tool.py) and the JSON files                         *)
(* (utils/json_handler.py).                                                 *)
(*                                                                         *)
(* Numbers.  Python floats are modelled as exact fixed-point rationals: a   *)
(* real input r (a distance in NM, an elevation in ft, a height in m, VE)   *)
(* is stored as the integer r*Den.  Program literals keep their own scale:  *)
(* 1852.0 is 1852 and 0.3048 is 3048/YScale.  A point's x is therefore in   *)
(* units of 1/Den m and its y, a product of two reals and 0.3048, in units  *)
(* of 1/(YScale*Den*Den) m.  Python ints (range counters) are plain         *)
(* integers and are converted with IntToReal where the code mixes them.     *)
(***************************************************************************)
EXTENDS Integers, Sequences, FiniteSets, TLC

VARIABLES
    origin,                 \* ProfileChartGeometry.origin
    horizontal_scale,       \* ProfileChartGeometry.horizontal_scale
    vertical_exaggeration,  \* ProfileChartGeometry.vertical_exaggeration
    crs,                    \* the project CRS the LayerManager reads
    layers,                 \* LayerManager.layers: layer name -> features
    layer_group,            \* LayerManager.layer_group
    entries,                \* QgsProject entries of scope "qAeroChart": key -> text
    clock,                  \* time.time() * 1000, in whole milliseconds
    map_tool,               \* canvas.mapTool()
    tool,                   \* ProfilePointToolManager.tool
    previous_tool,          \* ProfilePointToolManager.previous_tool
    tool_before,            \* the canvas tool the ProfilePointTool replaced
    files,                  \* the file system: path -> content
    op,                     \* the operation the caller invokes
    args,                   \* its arguments
    pc,                     \* "call": about to run op; "done": op has returned
    result,                 \* what it returned (or raised)
    log                     \* the calls completed so far: <<[op, args, result]>>

vars == <<origin, horizontal_scale, vertical_exaggeration, crs, layers,
          layer_group, entries, clock, map_tool, tool, previous_tool,
          tool_before, files, op, args, pc, result, log>>

geomVars == <<origin, horizontal_scale, vertical_exaggeration>>
layerVars == <<crs, layers, layer_group>>
projectVars == <<entries, clock>>
toolVars == <<map_tool, tool, previous_tool, tool_before>>
fileVars == <<files>>

----------------------------------------------------------------------------
(* Bounds *)

Den == 2            \* fixed-point denominator of real inputs
MaxPoints == 3      \* longest profile_points list given to create_profile_line
MaxConfigPoints == 2 \* longest profile_points list in a configuration
MaxNm == 3          \* largest |max_distance_nm| given to create_distance_markers
MaxCalls == 3       \* most calls made in a row on one object
MaxClock == 2       \* last millisecond the clock reaches
MaxSaves == 2       \* most configurations saved in a row
MaxRows == 2        \* most rows in the points table of the form

(* Program constants *)

NM_TO_METERS == 1852
FT_TO_METERS == 3048        \* 0.3048, in 1/YScale
YScale == 10000
DEFAULT_VE == 10            \* 10.0
DEFAULT_MARKER_HEIGHT_M == 200

IntToReal(i) == i * Den

----------------------------------------------------------------------------
(* Raw values as they arrive in a configuration dict (JSON / form text).   *)

Num(n)  == [t |-> "num", n |-> n, s |-> ""]
Str(s)  == [t |-> "str", n |-> 0, s |-> s]
None    == [t |-> "none", n |-> 0, s |-> ""]
Missing == [t |-> "missing", n |-> 0, s |-> ""]

\* dict.get(key, default)
Get(v, default) == IF v = Missing THEN default ELSE v

\* The string literals Python's float() accepts among those the model uses
\* (float strips surrounding whitespace), with their values.
NumericLiteral ==
    ("0" :> IntToReal(0)) @@ ("1" :> IntToReal(1)) @@ ("3" :> IntToReal(3)) @@
    (" 3 " :> IntToReal(3)) @@ ("6" :> IntToReal(6)) @@
    ("500" :> IntToReal(500)) @@ ("2000" :> IntToReal(2000))

\* The strings str.strip() turns into the empty string
Blank == {"", " "}

Ok(v)     == [ok |-> TRUE, val |-> v, exc |-> ""]
Raise(e)  == [ok |-> FALSE, val |-> 0, exc |-> e]

\* float(v)
float(v) ==
    CASE v.t = "num" -> Ok(v.n)
      [] v.t = "str" -> IF v.s \in DOMAIN NumericLiteral
                        THEN Ok(NumericLiteral[v.s])
                        ELSE Raise("ValueError")
      [] OTHER       -> Raise("TypeError")

\* int(r) of a real: truncation toward zero
int(r) == IF r >= 0 THEN r \div Den ELSE -((-r) \div Den)

\* str(i) of a Python int
Digit == <<"0", "1", "2", "3", "4", "5", "6", "7", "8", "9">>

RECURSIVE str_nat(_)
str_nat(i) == IF i < 10 THEN Digit[i + 1]
              ELSE str_nat(i \div 10) \o Digit[(i % 10) + 1]

str(i) == IF i < 0 THEN "-" \o str_nat(-i) ELSE str_nat(i)

----------------------------------------------------------------------------
(* ProfileChartGeometry.  self is [origin, horizontal_scale,               *)
(* vertical_exaggeration].                                                 *)

QgsPointXY(x, y) == [x |-> x, y |-> y]

Self == [origin |-> origin, horizontal_scale |-> horizontal_scale,
         vertical_exaggeration |-> vertical_exaggeration]

ProfileChartGeometry_unclamped(origin_point, ve_arg) ==
    [origin |-> origin_point,
     horizontal_scale |-> 1,
     vertical_exaggeration |->
         IF ve_arg \in {None, Missing, Num(0)} THEN IntToReal(DEFAULT_VE)
         ELSE ve_arg.n]

\* max(1.0, float(vertical_exaggeration or 10.0)), the argument being a
\* real, None, or omitted (Missing), which the signature defaults to 10.0
ProfileChartGeometry(origin_point, ve_arg) ==
    LET vertical_exaggeration_ == Get(ve_arg, Num(IntToReal(DEFAULT_VE)))
        v == IF vertical_exaggeration_ = None \/ vertical_exaggeration_ = Num(0)
             THEN IntToReal(DEFAULT_VE)
             ELSE vertical_exaggeration_.n
    IN [origin |-> origin_point,
        horizontal_scale |-> 1,
        vertical_exaggeration |-> IF v > IntToReal(1) THEN v ELSE IntToReal(1)]

nm_to_meters(nautical_miles) == nautical_miles * NM_TO_METERS

calculate_profile_point_scaleX(self, distance_nm, elevation_ft) ==
    QgsPointXY(self.origin.x
                 + nm_to_meters(distance_nm) * self.vertical_exaggeration,
               self.origin.y
                 + elevation_ft * FT_TO_METERS * self.vertical_exaggeration)

calculate_profile_point(self, distance_nm, elevation_ft) ==
    LET distance_m == nm_to_meters(distance_nm)
        elevation_m == elevation_ft * FT_TO_METERS
        scaled_distance_m == distance_m * self.horizontal_scale
        scaled_elevation_m == elevation_m * self.vertical_exaggeration
    IN QgsPointXY(self.origin.x + scaled_distance_m,
                  self.origin.y + scaled_elevation_m)

----------------------------------------------------------------------------
(* sorted(items, key=...): a stable sort.  keys[i] is the key of items[i]. *)

RECURSIVE insert_unstable(_, _, _)
insert_unstable(idx, i, keys) ==
    IF idx = <<>> THEN <<i>>
    ELSE IF keys[Head(idx)] < keys[i]
         THEN <<Head(idx)>> \o insert_unstable(Tail(idx), i, keys)
         ELSE <<i>> \o idx

\* insert index i behind every index whose key is <= keys[i]
RECURSIVE insert(_, _, _)
insert(idx, i, keys) ==
    IF idx = <<>> THEN <<i>>
    ELSE IF keys[Head(idx)] <= keys[i]
         THEN <<Head(idx)>> \o insert(Tail(idx), i, keys)
         ELSE <<i>> \o idx

RECURSIVE sorted_indices(_, _)
sorted_indices(keys, n) ==
    IF n = 0 THEN <<>> ELSE insert(sorted_indices(keys, n - 1), n, keys)

sorted(items, keys) ==
    LET idx == sorted_indices(keys, Len(items))
    IN [k \in 1..Len(items) |-> items[idx[k]]]

----------------------------------------------------------------------------
(* create_profile_line *)

Returned(v) == [raised |-> FALSE, exc |-> "", value |-> v]
Raised(e)   == [raised |-> TRUE, exc |-> e, value |-> <<>>]

profile_line_step_keep(self, points, point_data) ==
    LET d == float(Get(point_data.distance_nm, Num(0)))
        e == float(Get(point_data.elevation_ft, Num(0)))
    IN IF d.ok
       THEN Append(points, calculate_profile_point(self, d.val, e.val))
       ELSE points

\* the body of the for loop: the points list after one more point_data
profile_line_step(self, points, point_data) ==
    LET d == float(Get(point_data.distance_nm, Num(0)))
        e == float(Get(point_data.elevation_ft, Num(0)))
    IN IF d.ok /\ e.ok
       THEN Append(points, calculate_profile_point(self, d.val, e.val))
       ELSE points      \* except (ValueError, TypeError): continue

RECURSIVE profile_line_loop(_, _, _)
profile_line_loop(self, points, rest) ==
    IF rest = <<>> THEN points
    ELSE profile_line_loop(self,
                           profile_line_step(self, points, Head(rest)),
                           Tail(rest))

\* the sort key of each point, as the lambda computes it
sort_keys(profile_points) ==
    [i \in 1..Len(profile_points) |->
        float(Get(profile_points[i].distance_nm, Num(0)))]

create_profile_line(self, profile_points) ==
    LET keys == sort_keys(profile_points)
        bad == {i \in 1..Len(profile_points) : ~keys[i].ok}
    IN IF bad # {}
       THEN \* the key lambda raises inside sorted(), outside the try block
            Raised(keys[CHOOSE i \in bad : \A j \in bad : i <= j].exc)
       ELSE LET sorted_points ==
                    sorted(profile_points,
                           [i \in 1..Len(profile_points) |-> keys[i].val])
            IN Returned(profile_line_loop(self, <<>>, sorted_points))

----------------------------------------------------------------------------
(* create_distance_markers *)

\* the marker appended for range counter i
marker_upward(self, i, scaled_marker_height) ==
    LET x_position == self.origin.x
                      + nm_to_meters(IntToReal(i)) * self.horizontal_scale
    IN [distance |-> i,
        label |-> str(i),
        geometry |-> <<QgsPointXY(x_position, self.origin.y),
                       QgsPointXY(x_position,
                                  self.origin.y + scaled_marker_height * YScale)>>]

marker(self, i, scaled_marker_height) ==
    LET distance_m == nm_to_meters(IntToReal(i))
        scaled_distance == distance_m * self.horizontal_scale
        x_position == self.origin.x + scaled_distance
        bottom == QgsPointXY(x_position, self.origin.y)
        top == QgsPointXY(x_position,
                          self.origin.y - scaled_marker_height * YScale)
    IN [distance |-> i, label |-> str(i), geometry |-> <<bottom, top>>]

create_distance_markers(self, max_distance_nm, marker_height_m) ==
    LET scaled_marker_height == marker_height_m * self.vertical_exaggeration
        range(n) == [k \in 1..n |-> k - 1]
        counters == range(int(max_distance_nm) + 1)
    IN [k \in 1..Len(counters) |->
            marker(self, counters[k], scaled_marker_height)]

----------------------------------------------------------------------------
(* create_oca_box *)

create_oca_box_swapped(self, start_distance_nm, end_distance_nm, height_ft) ==
    LET x1 == self.origin.x + nm_to_meters(start_distance_nm)
        x2 == self.origin.x + nm_to_meters(end_distance_nm)
        y2 == self.origin.y
              + height_ft * FT_TO_METERS * self.vertical_exaggeration
    IN <<QgsPointXY(x1, self.origin.y), QgsPointXY(x2, self.origin.y),
         QgsPointXY(x1, y2), QgsPointXY(x2, y2),
         QgsPointXY(x1, self.origin.y)>>

create_oca_box(self, start_distance_nm, end_distance_nm, height_ft) ==
    LET start_m == nm_to_meters(start_distance_nm)
        end_m == nm_to_meters(end_distance_nm)
        height_m == height_ft * FT_TO_METERS
        scaled_start == start_m * self.horizontal_scale
        scaled_end == end_m * self.horizontal_scale
        scaled_height == height_m * self.vertical_exaggeration
        bottom_left == QgsPointXY(self.origin.x + scaled_start, self.origin.y)
        bottom_right == QgsPointXY(self.origin.x + scaled_end, self.origin.y)
        top_right == QgsPointXY(self.origin.x + scaled_end,
                                self.origin.y + scaled_height)
        top_left == QgsPointXY(self.origin.x + scaled_start,
                               self.origin.y + scaled_height)
    IN <<bottom_left, bottom_right, top_right, top_left, bottom_left>>

----------------------------------------------------------------------------
(* create_runway_line *)

create_runway_line_at_tch(self, length_m, _tch_m_unused) ==
    LET y == self.origin.y + _tch_m_unused * self.vertical_exaggeration * YScale
    IN <<QgsPointXY(self.origin.x - length_m, y), QgsPointXY(self.origin.x, y)>>

create_runway_line(self, length_m, _tch_m_unused) ==
    LET scaled_length == length_m * self.horizontal_scale
        y == self.origin.y
        start == QgsPointXY(self.origin.x - scaled_length, y)
        end == QgsPointXY(self.origin.x, y)
    IN <<start, end>>

----------------------------------------------------------------------------
(* create_vertical_reference_line *)

create_vertical_reference_line(self, distance_nm, height_m) ==
    LET x_position == self.origin.x
                      + nm_to_meters(distance_nm) * self.horizontal_scale
        bottom == QgsPointXY(x_position, self.origin.y)
        top == QgsPointXY(x_position,
                          self.origin.y
                            + height_m * self.vertical_exaggeration * YScale)
    IN <<bottom, top>>

----------------------------------------------------------------------------
(* Quotients.  The result of a float division is kept as the fraction in  *)
(* lowest terms with a positive denominator, so equal quotients are equal *)
(* values.                                                                 *)

Abs(n) == IF n < 0 THEN -n ELSE n

RECURSIVE GCD(_, _)
GCD(a, b) == IF b = 0 THEN a ELSE GCD(b, a % b)

Frac(n, d) ==
    LET g == GCD(Abs(n), Abs(d))
        sgn == IF d < 0 THEN -1 ELSE 1
    IN [num |-> sgn * (n \div g), den |-> sgn * (d \div g)]

----------------------------------------------------------------------------
(* calculate_gradient.  Distances and elevations are reals (in 1/Den); the *)
(* gradient returned is a fraction.                                        *)

calculate_gradient_ratio(self, point1_nm_ft, point2_nm_ft) ==
    LET horizontal_distance == nm_to_meters(point2_nm_ft[1])
                               - nm_to_meters(point1_nm_ft[1])
        vertical_distance == point2_nm_ft[2] * FT_TO_METERS
                             - point1_nm_ft[2] * FT_TO_METERS
    IN IF horizontal_distance = 0 THEN Frac(0, 1)
       ELSE Frac(vertical_distance, horizontal_distance * YScale)

calculate_gradient(self, point1_nm_ft, point2_nm_ft) ==
    LET dist1_nm == point1_nm_ft[1]
        elev1_ft == point1_nm_ft[2]
        dist2_nm == point2_nm_ft[1]
        elev2_ft == point2_nm_ft[2]
        dist1_m == nm_to_meters(dist1_nm)           \* in 1/Den m
        dist2_m == nm_to_meters(dist2_nm)
        elev1_m == elev1_ft * FT_TO_METERS          \* in 1/(Den*YScale) m
        elev2_m == elev2_ft * FT_TO_METERS
        horizontal_distance == dist2_m - dist1_m
        vertical_distance == elev2_m - elev1_m
    IN IF horizontal_distance = 0 THEN Frac(0, 1)   \* return 0.0
       ELSE LET ratio == Frac(vertical_distance,
                              horizontal_distance * YScale)
            IN Frac(ratio.num * 100, ratio.den)     \* ratio * 100

----------------------------------------------------------------------------
(* Wide integers.  The products extend_line_with_gradient forms do not    *)
(* fit the integers of the other operations; they are kept as a sign and  *)
(* a little-endian sequence of base-Base digits without leading zeros.    *)

Base == 1000

RECURSIVE WNat(_)
WNat(n) == IF n = 0 THEN <<>> ELSE <<n % Base>> \o WNat(n \div Base)

RECURSIVE WAddN(_, _, _)
WAddN(a, b, carry) ==
    IF a = <<>> /\ b = <<>> THEN WNat(carry)
    ELSE LET Low(d) == IF d = <<>> THEN 0 ELSE Head(d)
             Rest(d) == IF d = <<>> THEN <<>> ELSE Tail(d)
             x == Low(a) + Low(b) + carry
         IN <<x % Base>> \o WAddN(Rest(a), Rest(b), x \div Base)

RECURSIVE Strip(_)
Strip(a) == IF a # <<>> /\ a[Len(a)] = 0 THEN Strip(SubSeq(a, 1, Len(a) - 1))
            ELSE a

\* a - b for a >= b
RECURSIVE WSubN(_, _, _)
WSubN(a, b, borrow) ==
    IF a = <<>> THEN <<>>
    ELSE LET Low(d) == IF d = <<>> THEN 0 ELSE Head(d)
             Rest(d) == IF d = <<>> THEN <<>> ELSE Tail(d)
             x == Low(a) - Low(b) - borrow
         IN <<IF x < 0 THEN x + Base ELSE x>>
            \o WSubN(Rest(a), Rest(b), IF x < 0 THEN 1 ELSE 0)

\* a < b
RECURSIVE WLessN(_, _)
WLessN(a, b) ==
    IF Len(a) # Len(b) THEN Len(a) < Len(b)
    ELSE IF a = <<>> THEN FALSE
    ELSE IF a[Len(a)] # b[Len(b)] THEN a[Len(a)] < b[Len(b)]
    ELSE WLessN(SubSeq(a, 1, Len(a) - 1), SubSeq(b, 1, Len(b) - 1))

\* a * k for a digit k
RECURSIVE WMulDigit(_, _, _)
WMulDigit(a, k, carry) ==
    IF a = <<>> THEN WNat(carry)
    ELSE LET x == Head(a) * k + carry
         IN <<x % Base>> \o WMulDigit(Tail(a), k, x \div Base)

RECURSIVE WMulN(_, _)
WMulN(a, b) ==
    IF a = <<>> \/ b = <<>> THEN <<>>
    ELSE LET high == WMulN(a, Tail(b))
         IN Strip(WAddN(WMulDigit(a, Head(b), 0),
                        IF high = <<>> THEN <<>> ELSE <<0>> \o high, 0))

Wide(s, m) == [s |-> IF m = <<>> THEN 1 ELSE s, m |-> m]
W(n) == Wide(IF n < 0 THEN -1 ELSE 1, WNat(Abs(n)))
WMul(a, b) == Wide(a.s * b.s, WMulN(a.m, b.m))
WAdd(a, b) ==
    IF a.s = b.s THEN Wide(a.s, WAddN(a.m, b.m, 0))
    ELSE IF WLessN(a.m, b.m) THEN Wide(b.s, Strip(WSubN(b.m, a.m, 0)))
    ELSE Wide(a.s, Strip(WSubN(a.m, b.m, 0)))

----------------------------------------------------------------------------
(* extend_line_with_gradient.  Its elevations are wide integers in units  *)
(* of 1/FtScale ft, and the y of the point it returns is a wide integer   *)
(* in units of 1/(YScale*Den*FtScale) m.                                   *)

MScale == 100000
FtScale == Den * Den * 100 * MScale

\* calculate_profile_point for an elevation in 1/FtScale ft
calculate_profile_point_wide(self, distance_nm, elevation_ft) ==
    LET distance_m == nm_to_meters(distance_nm)
        elevation_m == WMul(elevation_ft, W(FT_TO_METERS))
        scaled_distance_m == distance_m * self.horizontal_scale
        scaled_elevation_m == WMul(elevation_m, W(self.vertical_exaggeration))
    IN QgsPointXY(self.origin.x + scaled_distance_m,
                  WAdd(WMul(W(self.origin.y), W(FtScale \div Den)),
                       scaled_elevation_m))

extend_line_with_gradient(self, start_point_nm_ft, gradient_percent, extend_distance_nm) ==
    LET start_dist_nm == start_point_nm_ft[1]
        start_elev_ft == start_point_nm_ft[2]
        extend_distance_m == nm_to_meters(extend_distance_nm)
        \* (gradient_percent / 100) * extend_distance_m, in 1/(Den*Den*100) m
        elevation_change_m == WMul(W(gradient_percent), W(extend_distance_m))
        METERS_TO_FT == 328084      \* 3.28084, in 1/MScale
        \* in 1/FtScale ft
        elevation_change_ft == WMul(elevation_change_m, W(METERS_TO_FT))
        end_dist_nm == start_dist_nm + extend_distance_nm
        end_elev_ft == WAdd(WMul(W(start_elev_ft), W(FtScale \div Den)),
                            elevation_change_ft)
    IN calculate_profile_point_wide(self, end_dist_nm, end_elev_ft)

----------------------------------------------------------------------------
(* LayerManager.  Of the six layers it creates, the model keeps the        *)
(* features of profile_line and profile_MOCA.                              *)

LAYER_LINE == "profile_line"
LAYER_MOCA == "profile_MOCA"

CreatedLayers ==
    LET LAYER_POINT_SYMBOL == "profile_point_symbol"
        LAYER_CARTO_LABEL == "profile_carto_label"
        LAYER_DIST == "profile_dist"
        LAYER_KEY_VLINES == "profile_key_verticals"
    IN {LAYER_POINT_SYMBOL, LAYER_CARTO_LABEL, LAYER_LINE,
        LAYER_KEY_VLINES, LAYER_DIST, LAYER_MOCA}

\* self.layers.get(name) is a layer
HasLayer(lyrs, name) == name \in DOMAIN lyrs

_crs_guard_geographic_only(current_crs, enforce_block) ==
    IF current_crs = "geographic" THEN ~enforce_block ELSE TRUE

_crs_guard(current_crs, enforce_block) ==
    IF current_crs = "invalid" THEN ~enforce_block
    ELSE IF current_crs = "geographic" THEN ~enforce_block
    ELSE TRUE

\* bool(v) of a raw value
Truthy(v) ==
    CASE v.t = "num" -> v.n # 0
      [] v.t = "str" -> v.s # ""
      [] OTHER       -> FALSE

\* f-string labels, kept as format and operands
Label(fmt, d1, d2, n1, n2) ==
    [fmt |-> fmt, d1 |-> d1, d2 |-> d2, n1 |-> n1, n2 |-> n2]

NoId == 0

\* a polygon feature of the MOCA layer: attributes [height, label, 0.0], id
MocaFeature(poly, hft, label, id) ==
    [geometry |-> poly, height |-> hft, label |-> label, id |-> id]

\* a line feature: attributes [id, symbol, txt_label, "", ""]
LineFeature(pts, id, symbol, txt_label) ==
    [geometry |-> pts, id |-> id, symbol |-> symbol, txt_label |-> txt_label]

\* a segment dict of 'oca' / 'oca_segments' / 'moca_segments'; hkey is the
\* value under 'oca_ft' resp. 'moca_ft'
\* and alt tells whether 'from' / 'to' are read when 'from_nm' / 'to_nm' are
\* absent (they are for list elements, not for the single 'oca')
SegFrom(seg, alt) ==
    float(Get(seg.from_nm, IF alt THEN Get(seg.from, Num(0)) ELSE Num(0)))
SegTo(seg, alt) ==
    float(Get(seg.to_nm, IF alt THEN Get(seg.to, Num(0)) ELSE Num(0)))
SegHeight(seg) == float(Get(seg.h_ft, Get(seg.height_ft, Num(0))))
SegParsable(seg) ==
    SegFrom(seg, TRUE).ok /\ SegTo(seg, TRUE).ok /\ SegHeight(seg).ok

\* the feature of the single 'oca' dict, when it parses
single_oca_feature(self, seg) ==
    IF SegFrom(seg, FALSE).ok /\ SegTo(seg, FALSE).ok /\ SegHeight(seg).ok
    THEN <<MocaFeature(create_oca_box(self, SegFrom(seg, FALSE).val,
                                      SegTo(seg, FALSE).val,
                                      SegHeight(seg).val),
                       SegHeight(seg).val,
                       Label("OCA {d1}-{d2}NM", SegFrom(seg, FALSE).val,
                             SegTo(seg, FALSE).val, "", ""),
                       1)>>
    ELSE <<>>

\* one feature per list element that parses, ids counting from first_id (or
\* NoId)
segment_features(self, segs, fmt, first_id) ==
    LET good == SelectSeq(segs, SegParsable)
    IN [k \in 1..Len(good) |->
          MocaFeature(create_oca_box(self, SegFrom(good[k], TRUE).val,
                                     SegTo(good[k], TRUE).val,
                                     SegHeight(good[k]).val),
                      SegHeight(good[k]).val,
                      Label(fmt, SegFrom(good[k], TRUE).val,
                            SegTo(good[k], TRUE).val, "", ""),
                      IF first_id = NoId THEN NoId ELSE first_id + k - 1)]

\* the OCA branch: the single 'oca', then 'oca_segments'
oca_features(self, config, layer_moca) ==
    LET oca_single == Get(config.oca, None)
        single == IF oca_single # None /\ layer_moca
                  THEN single_oca_feature(self, oca_single)
                  ELSE <<>>
        oca_segments == config.oca_segments
    IN IF oca_segments # <<>> /\ layer_moca
       THEN single \o segment_features(self, oca_segments,
                                        "OCA {d1}-{d2}NM", Len(single) + 1)
       ELSE single

\* the explicit MOCA branch
explicit_moca_features(self, config, layer_moca) ==
    LET explicit_moca == config.moca_segments
    IN IF explicit_moca # <<>> /\ layer_moca
       THEN segment_features(self, explicit_moca, "{d1}-{d2}NM", NoId)
       ELSE <<>>

\* a per-point loop reaches moca_ft.strip() on a value that is no string
StripFails(profile_points) ==
    \E i \in 1..(Len(profile_points) - 1) :
        LET moca_ft == Get(profile_points[i].moca_ft, Str(""))
        IN Truthy(moca_ft) /\ moca_ft.t # "str"

\* pair (i, i+1) yields a polygon in a per-point loop
PairHasMoca(profile_points, i) ==
    LET point1 == profile_points[i]
        point2 == profile_points[i + 1]
        moca_ft == Get(point1.moca_ft, Str(""))
    IN /\ Truthy(moca_ft) /\ moca_ft.t = "str" /\ moca_ft.s \notin Blank
       /\ float(moca_ft).ok
       /\ float(Get(point1.distance_nm, Num(0))).ok
       /\ float(Get(point2.distance_nm, Num(0))).ok

per_point_features(self, profile_points, layer_moca, first_id) ==
    LET Has(i) == PairHasMoca(profile_points, i)
        pairs == SelectSeq([i \in 1..(Len(profile_points) - 1) |-> i], Has)
    IN IF ~layer_moca THEN <<>>
       ELSE [k \in 1..Len(pairs) |->
               LET point1 == profile_points[pairs[k]]
                   point2 == profile_points[pairs[k] + 1]
                   moca_value == float(point1.moca_ft).val
                   dist1_nm == float(Get(point1.distance_nm, Num(0))).val
                   dist2_nm == float(Get(point2.distance_nm, Num(0))).val
               IN MocaFeature(create_oca_box(self, dist1_nm, dist2_nm,
                                             moca_value),
                              moca_value,
                              Label("{p1} - {p2}", 0, 0, point1.point_name,
                                    point2.point_name),
                              IF first_id = NoId THEN NoId
                              ELSE first_id + k - 1)]

\* the per-point fallback of the branch without OCA and explicit MOCA
fallback_per_point_moca(self, profile_points, layer_moca) ==
    per_point_features(self, profile_points, layer_moca, 1)

trailing_per_point_moca_nobreak(self, profile_points, has_explicit, layer_moca) ==
    per_point_features(self, profile_points, layer_moca, NoId)

\* the per-point loop that follows the branches; it stops at once when
\* explicit MOCA segments are configured
trailing_per_point_moca(self, profile_points, has_explicit, layer_moca) ==
    IF has_explicit THEN <<>>
    ELSE per_point_features(self, profile_points, layer_moca, NoId)

HasOca(config) ==
    Get(config.oca, None) # None \/ config.oca_segments # <<>>
HasExplicitMoca(config) == config.moca_segments # <<>>

\* section 6: the batch of MOCA-layer features, or the AttributeError of
\* moca_ft.strip()
moca_batch(self, config, layer_moca) ==
    LET profile_points == config.profile_points
        has_oca == HasOca(config)
        has_explicit_moca == HasExplicitMoca(config)
        branch == IF has_oca THEN oca_features(self, config, layer_moca)
                  ELSE IF has_explicit_moca
                       THEN explicit_moca_features(self, config, layer_moca)
                       ELSE fallback_per_point_moca(self, profile_points,
                                                    layer_moca)
    IN IF ~has_explicit_moca /\ StripFails(profile_points)
       THEN Raised("AttributeError")
       ELSE Returned(branch \o trailing_per_point_moca(self, profile_points,
                                                      has_explicit_moca,
                                                      layer_moca))

\* max(float(p.get('distance_nm', 0)) for p in profile_points)
RECURSIVE max_of(_)
max_of(xs) == IF Len(xs) = 1 THEN xs[1]
              ELSE LET m == max_of(Tail(xs))
                   IN IF xs[1] >= m THEN xs[1] ELSE m

\* sections 2, 3 and 5: the batch of line-layer features (all distances
\* parse when this is evaluated)
line_batch(self, config, runway_length, tch, layer_line) ==
    LET profile_points == config.profile_points
        line_points == IF Len(profile_points) >= 2
                       THEN create_profile_line(self, profile_points).value
                       ELSE <<>>
        f1 == IF line_points # <<>> /\ layer_line
              THEN <<LineFeature(line_points, str(1), "profile",
                                 "Main Profile")>>
              ELSE <<>>
        f2 == IF runway_length > 0 /\ layer_line
              THEN Append(f1, LineFeature(
                                create_runway_line(self, runway_length, tch),
                                str(Len(f1) + 1), "runway", "Runway"))
              ELSE f1
        dmax == max_of([i \in 1..Len(profile_points) |->
                           sort_keys(profile_points)[i].val])
        axis == float(Get(Get(config.style, [axis_max_nm |-> Missing])
                            .axis_max_nm, Num(dmax)))
        max_distance_nm == IF axis.ok /\ axis.val > dmax THEN axis.val
                           ELSE dmax
    IN IF layer_line
       THEN Append(f2, LineFeature(
                         <<calculate_profile_point(self, 0, 0),
                           calculate_profile_point(self, max_distance_nm, 0)>>,
                         str(Len(f2) + 1), "baseline", "Baseline"))
       ELSE f2

\* what populate_layers_from_config does: "False" (nothing added), an
\* exception that leaves the method before the batch add (nothing added),
\* or "True" with the features added to each layer
Outcome(ret, exc, line, moca) ==
    [returned |-> ret, exc |-> exc, line_features |-> line,
     moca_features |-> moca]

populate_layers_from_config(lyrs, current_crs, config) ==
    LET origin_data == Get(config.origin_point,
                           Get(config.reference_point, Missing))
        profile_points == config.profile_points
        runway == config.runway
        runway_length == float(Get(runway.length, Num(0)))
        tch == float(Get(runway.tch_rdh, Num(0)))
        style_ve == float(Get(Get(config.style,
                                  [vertical_exaggeration |-> Missing])
                                .vertical_exaggeration,
                              Num(IntToReal(DEFAULT_VE))))
        ve == IF style_ve.ok THEN style_ve.val ELSE IntToReal(DEFAULT_VE)
        geometry == ProfileChartGeometry(origin_data, Num(ve))
        layer_line == HasLayer(lyrs, LAYER_LINE)
        layer_moca == HasLayer(lyrs, LAYER_MOCA)
        keys == sort_keys(profile_points)
        moca == moca_batch(geometry, config, layer_moca)
    IN IF ~_crs_guard(current_crs, TRUE) THEN Outcome("False", "", <<>>, <<>>)
       ELSE IF origin_data = Missing THEN Outcome("False", "", <<>>, <<>>)
       ELSE IF profile_points = <<>> THEN Outcome("False", "", <<>>, <<>>)
       ELSE IF ~runway_length.ok
            THEN Outcome("raised", runway_length.exc, <<>>, <<>>)
       ELSE IF ~tch.ok THEN Outcome("raised", tch.exc, <<>>, <<>>)
       ELSE IF \E i \in 1..Len(profile_points) : ~keys[i].ok
            THEN \* sorted() in create_profile_line, or max() in section 5
                 Outcome("raised",
                         keys[CHOOSE i \in 1..Len(keys) :
                                /\ ~keys[i].ok
                                /\ \A j \in 1..(i - 1) : keys[j].ok].exc,
                         <<>>, <<>>)
       ELSE IF moca.raised THEN Outcome("raised", moca.exc, <<>>, <<>>)
       ELSE Outcome("True", "",
                    line_batch(geometry, config, runway_length.val, tch.val,
                               layer_line),
                    moca.value)

\* layer.addFeatures(batch) on the layers of lyrs
add_features(lyrs, outcome) ==
    [name \in DOMAIN lyrs |->
        IF name = LAYER_LINE THEN lyrs[name] \o outcome.line_features
        ELSE IF name = LAYER_MOCA THEN lyrs[name] \o outcome.moca_features
        ELSE lyrs[name]]

\* create_all_layers: the layers dict it leaves in self.layers
create_all_layers(lyrs, current_crs) ==
    IF ~_crs_guard(current_crs, TRUE) THEN lyrs
    ELSE [name \in CreatedLayers |-> <<>>] @@ lyrs

----------------------------------------------------------------------------
(* ProfileManager.  project is the entries of scope "qAeroChart" of the    *)
(* QGIS project, a function from key to the JSON text stored under it.     *)
(* A JSON text is kept as the document it denotes.                         *)

PROFILE_PREFIX == "qaerochart_profile_"
PROFILE_LIST_KEY == "qaerochart_profiles"

\* Python values a configuration holds besides numbers and strings
PyDict(direction) == [t |-> "dict", direction |-> direction]
PyList(items) == [t |-> "list", items |-> items]
PyTuple(items) == [t |-> "tuple", items |-> items]

\* json.dumps(v) of one value: a tuple is written as an array like a list,
\* None as null; an absent key stays absent
json_dumps_value(v) ==
    CASE v.t = "none"  -> [t |-> "null"]
      [] v.t = "dict"  -> [t |-> "object", direction |-> v.direction]
      [] v.t = "list"  -> [t |-> "array", items |-> v.items]
      [] v.t = "tuple" -> [t |-> "array", items |-> v.items]
      [] OTHER         -> v

\* json.loads(text) of one value: an array is read as a list
json_loads_value(j) ==
    CASE j.t = "null"   -> None
      [] j.t = "object" -> PyDict(j.direction)
      [] j.t = "array"  -> PyList(j.items)
      [] OTHER          -> j

\* json.dumps(config) / json.loads(config_json) of a configuration dict
json_dumps(config) ==
    [runway |-> json_dumps_value(config.runway),
     profile_points |-> json_dumps_value(config.profile_points)]

json_loads(config_json) ==
    [runway |-> json_loads_value(config_json.runway),
     profile_points |-> json_loads_value(config_json.profile_points)]

\* QgsProject.readEntry(scope, key, default)[0], writeEntry
readEntry(project, key, default) ==
    IF key \in DOMAIN project THEN project[key] ELSE default
writeEntry(project, key, value) ==
    [k \in DOMAIN project \cup {key} |->
        IF k = key THEN value ELSE project[k]]

\* the profile list is stored as a JSON array of objects; json.dumps and
\* json.loads of its strings and numbers give the same list back
get_all_profiles(project) == readEntry(project, PROFILE_LIST_KEY, <<>>)

\* f"profile_{int(time.time() * 1000)}"
profile_id_at(now) == "profile_" \o str(now)

\* runway.get('direction', 'N/A') and len(profile_points) of the metadata
\* dict literal, in evaluation order
metadata_fields(config) ==
    LET profile_points == Get(config.profile_points, PyList(<<>>))
        runway == Get(config.runway, PyDict(Missing))
    IN IF runway.t # "dict" THEN Raise("AttributeError")
       ELSE IF profile_points.t \notin {"list", "tuple"}
            THEN Raise("TypeError")
       ELSE Ok([runway_direction |-> Get(runway.direction, Str("N/A")),
                point_count |-> Len(profile_points.items)])

\* the project after the call and what the call returned or raised
Effect(project, res) == [project |-> project, result |-> res]

save_profile(project, now, profile_name, config) ==
    LET profile_id == profile_id_at(now)
        config_json == json_dumps(config)
        stored == writeEntry(project, PROFILE_PREFIX \o profile_id,
                             config_json)
        profiles == get_all_profiles(stored)
        fields == metadata_fields(config)
    IN IF ~fields.ok THEN Effect(stored, Raised(fields.exc))
       ELSE Effect(writeEntry(stored, PROFILE_LIST_KEY,
                       Append(profiles,
                              [id |-> profile_id,
                               name |-> profile_name,
                               runway_direction |-> fields.val.runway_direction,
                               point_count |-> fields.val.point_count,
                               created |-> now])),
                   Returned(profile_id))

get_profile(project, profile_id) ==
    LET key == PROFILE_PREFIX \o profile_id
    IN IF key \notin DOMAIN project THEN None       \* not config_json
       ELSE json_loads(project[key])

\* the for loop of update_profile: the first entry with the id is rewritten
RECURSIVE update_first(_, _, _, _)
update_first(profiles, profile_id, profile_name, fields) ==
    IF profiles = <<>> THEN <<>>
    ELSE IF Head(profiles).id = profile_id
         THEN <<[Head(profiles) EXCEPT
                    !.name = profile_name,
                    !.runway_direction = fields.runway_direction,
                    !.point_count = fields.point_count]>> \o Tail(profiles)
         ELSE <<Head(profiles)>>
              \o update_first(Tail(profiles), profile_id, profile_name, fields)

update_profile(project, profile_id, profile_name, config) ==
    LET stored == writeEntry(project, PROFILE_PREFIX \o profile_id,
                             json_dumps(config))
        profiles == get_all_profiles(stored)
        listed == \E k \in 1..Len(profiles) : profiles[k].id = profile_id
        fields == metadata_fields(config)
        config_get_raises ==
            \* config.get('runway', {}) is fine, but len() is reached only
            \* inside the loop, as runway.get() is
            listed /\ ~fields.ok
    IN IF config_get_raises THEN Effect(stored, Raised(fields.exc))
       ELSE Effect(writeEntry(stored, PROFILE_LIST_KEY,
                       IF listed
                       THEN update_first(profiles, profile_id, profile_name,
                                         fields.val)
                       ELSE profiles),
                   Returned("True"))

delete_profile_keep_config(project, profile_id) ==
    LET profiles == get_all_profiles(project)
    IN Effect(writeEntry(project, PROFILE_LIST_KEY,
                  SelectSeq(profiles, LAMBDA p : p.id # profile_id)),
              Returned("True"))

delete_profile(project, profile_id) ==
    LET removeEntry(key) == [k \in DOMAIN project \ {key} |-> project[k]]
        removed == removeEntry(PROFILE_PREFIX \o profile_id)
        profiles == get_all_profiles(removed)
    IN Effect(writeEntry(removed, PROFILE_LIST_KEY,
                  SelectSeq(profiles, LAMBDA p : p.id # profile_id)),
              Returned("True"))

----------------------------------------------------------------------------
(* ProfilePointToolManager and the canvas it drives.  A map tool is named  *)
(* by a string, "None" standing for no tool.  self is [tool,               *)
(* previous_tool]; each operation gives the manager and the canvas's       *)
(* active tool after the call.                                             *)

ProfilePointTool == "ProfilePointTool"

\* QgsMapCanvas.setMapTool(t) on a canvas whose active tool is current
setMapTool(current, t) == IF t = "None" THEN current ELSE t

Managed(tool_, previous_tool_, canvas_tool) ==
    [tool |-> tool_, previous_tool |-> previous_tool_,
     map_tool |-> canvas_tool]

create_tool(self, current) ==
    Managed(IF self.tool = "None" THEN ProfilePointTool ELSE self.tool,
            self.previous_tool, current)

activate_tool(self, current) ==
    LET saved == current                      \* self.canvas.mapTool()
        created == create_tool([self EXCEPT !.previous_tool = saved],
                               current)
    IN Managed(created.tool, saved, setMapTool(current, created.tool))

deactivate_tool(self, current) ==
    LET \* QgsMapCanvas.unsetMapTool(t)
        unsetMapTool(t) ==
            IF current # "None" /\ current = t THEN "None" ELSE current
    IN IF self.previous_tool # "None"
       THEN Managed(self.tool, "None",
                    setMapTool(current, self.previous_tool))
       ELSE Managed(self.tool, "None", unsetMapTool(self.tool))

cleanup(self, current) ==
    IF self.tool # "None"
    THEN [deactivate_tool(self, current) EXCEPT !.tool = "None"]
    ELSE Managed(self.tool, self.previous_tool, current)

----------------------------------------------------------------------------
(* JSONHandler.  A configuration is a record of the values under its keys  *)
(* origin_point, reference_point, runway and profile_points, Missing for   *)
(* an absent key.  A dict is kept as the set of its keys and an id that    *)
(* tells two dicts apart; PySet is a value json cannot serialise.          *)

CONFIG_VERSION == "2.0"
PLUGIN_VERSION == "0.1.0"

Mapping(keys, id) == [t |-> "mapping", keys |-> keys, id |-> id]
PySet == [t |-> "set"]

\* a or b
Or(a, b) ==
    LET bool(v) == CASE v.t = "mapping" -> v.keys # {}
                     [] v.t \in {"list", "tuple"} -> v.items # << >>
                     [] v.t = "set" -> TRUE
                     [] OTHER -> Truthy(v)
    IN IF bool(a) THEN a ELSE b

\* config.get(key, default)
config_get(config, key, default) == Get(config[key], default)

\* all(key in runway for key in runway_keys): stops at the first key that
\* is absent; key in v is a TypeError for a v that is no container
RECURSIVE all_keys_in(_, _)
all_keys_in(keys, v) ==
    IF keys = << >> THEN Returned(TRUE)
    ELSE IF v.t \notin {"mapping", "list", "tuple", "set"}
    THEN Raised("TypeError")
    ELSE IF ~(v.t = "mapping" /\ Head(keys) \in v.keys) THEN Returned(FALSE)
    ELSE all_keys_in(Tail(keys), v)

_validate_config(config) ==
    IF config.runway = Missing \/ config.profile_points = Missing
    THEN Returned(FALSE)
    ELSE
    LET ref_point == Or(config_get(config, "origin_point", None),
                        config_get(config, "reference_point", None))
        runway == config_get(config, "runway", Mapping({}, 0))
        runway_keys == <<"direction", "length", "thr_elevation", "tch_rdh">>
        has_keys == all_keys_in(runway_keys, runway)
        profile_points == config_get(config, "profile_points", PyList(<< >>))
    IN IF ref_point.t # "mapping" THEN Returned(FALSE)
       ELSE IF "x" \notin ref_point.keys \/ "y" \notin ref_point.keys
       THEN Returned(FALSE)
       ELSE IF has_keys.raised THEN has_keys
       ELSE IF ~has_keys.value THEN Returned(FALSE)
       ELSE Returned(profile_points.t = "list")

\* the text json.dump writes for one value of full_config
json_text(v) ==
    CASE v.t = "mapping" -> [t |-> "object", keys |-> v.keys, id |-> v.id]
      [] OTHER -> json_dumps_value(v)

\* open(filepath, 'w') then json.dump(full_config, f): the file is created
\* or truncated, then written value by value; json writes numbers,
\* strings, None, dicts, and lists and tuples of what it can write, and
\* raises on anything else, leaving what it wrote before
write_json(fs, filepath, full_config) ==
    LET serialisable(v) ==
            CASE v.t \in {"list", "tuple"} ->
                    \A i \in DOMAIN v.items : v.items[i] # PySet
              [] v.t = "set" -> FALSE
              [] OTHER -> TRUE
        ok == \A k \in DOMAIN full_config : serialisable(full_config[k])
        content == IF ok
                   THEN [t |-> "json",
                         data |-> [k \in DOMAIN full_config |->
                                      json_text(full_config[k])]]
                   ELSE [t |-> "partial"]
    IN [files |-> [p \in DOMAIN fs \cup {filepath} |->
                      IF p = filepath THEN content ELSE fs[p]],
        result |-> IF ok THEN Returned(TRUE) ELSE Raised("TypeError")]

\* the creation and modification times of the metadata are left out
save_config(fs, config, filepath) ==
    LET valid == _validate_config(config)
    IN IF valid.raised THEN [files |-> fs, result |-> valid]
       ELSE IF ~valid.value
       THEN [files |-> fs, result |-> Raised("ValueError")]
       ELSE
       LET origin_point == Or(Or(config_get(config, "origin_point", None),
                                 config_get(config, "reference_point", None)),
                              Mapping({}, 0))
           full_config ==
               [version |-> Str(CONFIG_VERSION),
                plugin_version |-> Str(PLUGIN_VERSION),
                origin_point |-> origin_point,
                reference_point |-> origin_point,
                runway |-> config_get(config, "runway", Mapping({}, 0)),
                profile_points |->
                    config_get(config, "profile_points", PyList(<< >>)),
                style |-> Mapping({}, 0),
                moca_segments |-> PyList(<< >>),
                oca |-> None,
                oca_segments |-> PyList(<< >>)]
       IN write_json(fs, filepath, full_config)

----------------------------------------------------------------------------
(* Validators.  The text validate_runway_direction reads is kept as the    *)
(* sequence of its characters, [t |-> "text", c |-> characters]; a value   *)
(* that is no string is None or a number.  The result is the tuple         *)
(* (is_valid, error_message).                                              *)

validate_runway_direction(value) ==
    LET is_str == value.t = "text"
        falsy == IF is_str THEN value.c = << >> ELSE ~Truthy(value)
        c == value.c
        digits == {Digit[i] : i \in 1..10}
        Val(ch) == (CHOOSE i \in 1..10 : Digit[i] = ch) - 1
        \* 0[1-9]|[12][0-9]|3[0-6]
        NN(a, b) == \/ a = "0" /\ b \in digits \ {"0"}
                    \/ a \in {"1", "2"} /\ b \in digits
                    \/ a = "3" /\ b \in digits /\ Val(b) <= 6
        \* re.match of ^(NN)/(NN)$: $ matches at the end of the string and
        \* also just before a newline that ends it
        matched == /\ Len(c) \in {5, 6}
                   /\ NN(c[1], c[2]) /\ c[3] = "/" /\ NN(c[4], c[5])
                   /\ Len(c) = 6 => c[6] = "\n"
        \* parts = value.split('/'); int() skips the whitespace around
        \* the digits
        dir1 == Val(c[1]) * 10 + Val(c[2])
        dir2 == Val(c[4]) * 10 + Val(c[5])
        reciprocal == IF (dir1 + 18) % 36 = 0 THEN 36 ELSE (dir1 + 18) % 36
    IN IF falsy \/ ~is_str THEN <<FALSE, "Runway direction is required">>
       ELSE IF ~matched
       THEN <<FALSE,
              "Invalid runway direction format (use NN/NN, e.g., 09/27)">>
       ELSE IF dir2 # reciprocal
       THEN <<FALSE, "Runway directions must be reciprocal (differ by 18)">>
       ELSE <<TRUE, "">>

----------------------------------------------------------------------------
(* QAeroChartDockWidget._generate_profile_preview.  form is [rows, length, *)
(* tch_rdh, direction, axis_max_nm]: a row is the texts of its three       *)
(* cells (Missing for a cell without an item), direction the characters    *)
(* of the line edit (Missing when the form has none), axis_max_nm the      *)
(* number in the spin box (Missing when the form has none).  A dict is the *)
(* record of its keys.                                                     *)

\* the parameters ProfileChartGeometry.__init__ declares
init_parameters == {"origin_point", "vertical_exaggeration"}

_generate_profile_preview(origin_point, form) ==
    LET text_or(item, default) == IF item = Missing THEN default ELSE item.s
        \* float(s or 0)
        float_or_0(s) == IF s = "" THEN Ok(0) ELSE float(Str(s))
        \* float(s.strip() or 0)
        float_stripped(s) == IF s \in Blank THEN Ok(0) ELSE float(Str(s))
        row_point(row) ==
            LET name == text_or(row[1], "")
                dist == text_or(row[2], "0")
                elev == text_or(row[3], "0")
                d == float_or_0(dist)
                e == float_or_0(elev)
            IN IF (name # "" \/ dist # "" \/ elev # "") /\ d.ok /\ e.ok
               THEN <<[point_name |-> name, distance_nm |-> Num(d.val),
                       elevation_ft |-> Num(e.val)]>>
               ELSE << >>
        RECURSIVE collect(_)
        collect(rows) == IF rows = << >> THEN << >>
                         ELSE row_point(Head(rows)) \o collect(Tail(rows))
        profile_points == collect(form.rows)
        len == float_stripped(form.length)
        tch == float_stripped(form.tch_rdh)
        runway_len == IF len.ok /\ tch.ok THEN len.val ELSE 0
        tch_m == IF len.ok /\ tch.ok THEN tch.val * FT_TO_METERS ELSE 0
        dir_text == IF form.direction = Missing THEN << >>
                    ELSE form.direction.c
        is_digit(ch) == \E i \in 1..10 : Digit[i] = ch
        Val(ch) == (CHOOSE i \in 1..10 : Digit[i] = ch) - 1
        found == SelectSeq(dir_text, is_digit)
        rwy_num == IF found = << >> THEN 0
                   ELSE IF Len(found) = 1 THEN Val(found[1])
                   ELSE Val(found[1]) * 10 + Val(found[2])
        dir_sign == IF rwy_num # 0 /\ rwy_num <= 18 THEN -1 ELSE 1
        keywords == {"vertical_exaggeration", "horizontal_direction"}
        geometry == ProfileChartGeometry(origin_point,
                                         Num(IntToReal(DEFAULT_VE)))
        profile_line == create_profile_line(geometry, profile_points)
        distances == [i \in 1..Len(profile_points) |->
                         profile_points[i].distance_nm.n]
        points_max == max_of(distances)
        max_nm == IF form.axis_max_nm # Missing
                     /\ form.axis_max_nm.n > points_max
                  THEN form.axis_max_nm.n ELSE points_max
        markers == create_distance_markers(geometry, max_nm, IntToReal(20))
        grid == create_distance_markers(geometry, max_nm, IntToReal(150))
        tick_segments == IF profile_points = << >> THEN << >>
                         ELSE [i \in 1..Len(markers) |-> markers[i].geometry]
        tick_labels == IF profile_points = << >> THEN << >>
                       ELSE [i \in 1..Len(markers) |->
                               [pos |-> markers[i].geometry[2],
                                text |-> markers[i].label]]
        grid_segments == IF profile_points = << >> THEN << >>
                         ELSE [i \in 1..Len(grid) |-> grid[i].geometry]
        baseline == IF profile_points = << >> THEN << >>
                    ELSE <<calculate_profile_point(geometry, 0, 0),
                           calculate_profile_point(geometry, max_nm, 0)>>
        runway_pts == create_runway_line(geometry, runway_len, tch_m)
        failed == [profile_line |-> << >>, tick_segments |-> << >>,
                   tick_labels |-> << >>]
    IN IF ~(keywords \subseteq init_parameters)
       THEN failed        \* TypeError: unexpected keyword argument
       ELSE IF profile_line.raised THEN failed
       ELSE [profile_line |->
                IF runway_len > 0 /\ tch_m >= 0 /\ profile_line.value = << >>
                THEN runway_pts ELSE profile_line.value,
             baseline |-> baseline,
             grid_segments |-> grid_segments,
             tick_segments |-> tick_segments,
             tick_labels |-> tick_labels]

----------------------------------------------------------------------------
(* Inputs *)

Origins == {QgsPointXY(0, 0),
            QgsPointXY(IntToReal(1000), IntToReal(2000) * YScale * Den)}

VEArgs == {None, Num(0), Num(1), Num(IntToReal(1)), Num(IntToReal(2)),
           Num(IntToReal(10)), Num(-IntToReal(3)), Missing}

Reals == {-IntToReal(2), -1, 0, 1, IntToReal(1), IntToReal(3)}

ProfilePoint(d, e, m, name) ==
    [point_name |-> name, distance_nm |-> d, elevation_ft |-> e,
     moca_ft |-> m]

Seg(a, b, h) ==
    [from_nm |-> a, to_nm |-> b, h_ft |-> h,
     from |-> Missing, to |-> Missing, height_ft |-> Missing]
BadSeg == Seg(Num(0), Str("N/A"), Num(IntToReal(500)))
AltSeg == [from_nm |-> Missing, to_nm |-> Missing, h_ft |-> Missing,
           from |-> Num(0), to |-> Num(IntToReal(1)),
           height_ft |-> Num(IntToReal(2000))]

SeqsUpTo(S, n) == UNION {[1..k -> S] : k \in 0..n}

----------------------------------------------------------------------------
(* The geometry engine: an instance is constructed, then the caller runs  *)
(* one of its operations on arguments of its choice.                       *)

Idle == [none |-> TRUE]

Call(o, a) == [op |-> o, args |-> a]

GeometryCalls ==
    LET DistanceInputs == {Num(0), Num(IntToReal(3)), Str("3"), Str("N/A"),
                           None, Missing}
        ElevationInputs == {Num(IntToReal(500)), Str("2000"), Str("N/A")}
        LinePoints == {ProfilePoint(d, e, Missing, "P") :
                         d \in DistanceInputs, e \in ElevationInputs}
        MaxDistances == (-IntToReal(MaxNm))..IntToReal(MaxNm)
        MarkerHeights == {Missing, Num(1), Num(IntToReal(20))}
        BoxHeights == {0, 1, IntToReal(500)}
        RunwayLengths == {0, 1, IntToReal(2000), -IntToReal(100)}
        TchArgs == {Missing, Num(0), Num(IntToReal(15))}
        Elevations == {-IntToReal(100), 0, 1, IntToReal(500), IntToReal(1000)}
        GradientPoints == {<<d, e>> : d \in Reals, e \in Elevations}
        StartPoints == {<<d, e>> : d \in Reals, e \in {-1, 0, IntToReal(500)}}
        Gradients == {-IntToReal(5), 0, 1, IntToReal(5)}
        Extensions == {-IntToReal(1), 0, 1, IntToReal(3)}
        ReferenceHeights == {0, 1, IntToReal(20)}
    IN {Call("calculate_profile_point", [distance_nm |-> d, elevation_ft |-> e]) :
           d \in Reals, e \in Reals}
       \cup {Call("create_profile_line", [profile_points |-> pts]) :
           pts \in SeqsUpTo(LinePoints, MaxPoints)}
       \cup {Call("create_distance_markers",
                   [max_distance_nm |-> m, marker_height_m |-> h]) :
           m \in MaxDistances, h \in MarkerHeights}
       \cup {Call("create_oca_box",
                   [start_distance_nm |-> a, end_distance_nm |-> b,
                    height_ft |-> h]) :
           a \in Reals, b \in Reals, h \in BoxHeights}
       \cup {Call("create_runway_line", [length_m |-> l, _tch_m_unused |-> t]) :
           l \in RunwayLengths, t \in TchArgs}
       \cup {Call("create_vertical_reference_line",
                   [distance_nm |-> d, height_m |-> h]) :
           d \in Reals, h \in ReferenceHeights}
       \cup {Call("calculate_gradient",
                   [point1_nm_ft |-> p1, point2_nm_ft |-> p2]) :
           p1 \in GradientPoints, p2 \in GradientPoints}
       \cup {Call("extend_line_with_gradient",
                   [start_point_nm_ft |-> p, gradient_percent |-> g,
                    extend_distance_nm |-> x]) :
           p \in StartPoints, g \in Gradients, x \in Extensions}

\* the parts of the plugin a specification does not exercise, at rest
AtRest(parts) ==
    /\ "layers" \in parts =>
          crs = "projected" /\ layers = << >> /\ layer_group = "None"
    /\ "project" \in parts => entries = << >> /\ clock = 0
    /\ "tool" \in parts =>
          /\ map_tool = "None" /\ tool = "None"
          /\ previous_tool = "None" /\ tool_before = "NotActivated"
    /\ "files" \in parts => files = << >>

Init ==
    /\ \E o \in Origins, ve \in VEArgs :
         LET g == ProfileChartGeometry(o, ve)
         IN /\ origin = g.origin
            /\ horizontal_scale = g.horizontal_scale
            /\ vertical_exaggeration = g.vertical_exaggeration
    /\ AtRest({"layers", "project", "tool", "files"})
    /\ log = << >>
    /\ \E c \in GeometryCalls : op = c.op /\ args = c.args
    /\ pc = "call"
    /\ result = Idle

Return(v) ==
    /\ result' = v
    /\ pc' = "done"
    /\ log' = Append(log, [op |-> op, args |-> args, result |-> v])
    /\ UNCHANGED <<op, args>>

CalculateProfilePoint ==
    /\ pc = "call" /\ op = "calculate_profile_point"
    /\ Return(calculate_profile_point(Self, args.distance_nm,
                                      args.elevation_ft))
    /\ UNCHANGED <<geomVars, layerVars, projectVars, toolVars, fileVars>>

CreateProfileLine ==
    /\ pc = "call" /\ op = "create_profile_line"
    /\ Return(create_profile_line(Self, args.profile_points))
    /\ UNCHANGED <<geomVars, layerVars, projectVars, toolVars, fileVars>>

CreateDistanceMarkers_rescaling ==
    /\ pc = "call" /\ op = "create_distance_markers"
    /\ Return(create_distance_markers(
                  Self, args.max_distance_nm,
                  Get(args.marker_height_m,
                      Num(IntToReal(DEFAULT_MARKER_HEIGHT_M))).n))
    /\ vertical_exaggeration' = IntToReal(1)
    /\ UNCHANGED <<origin, horizontal_scale, layerVars, projectVars, toolVars, fileVars>>

CreateDistanceMarkers ==
    /\ pc = "call" /\ op = "create_distance_markers"
    /\ Return(create_distance_markers(
                  Self, args.max_distance_nm,
                  Get(args.marker_height_m,
                      Num(IntToReal(DEFAULT_MARKER_HEIGHT_M))).n))
    /\ UNCHANGED <<geomVars, layerVars, projectVars, toolVars, fileVars>>

CreateOcaBox ==
    /\ pc = "call" /\ op = "create_oca_box"
    /\ Return(create_oca_box(Self, args.start_distance_nm,
                             args.end_distance_nm, args.height_ft))
    /\ UNCHANGED <<geomVars, layerVars, projectVars, toolVars, fileVars>>

CreateRunwayLine ==
    /\ pc = "call" /\ op = "create_runway_line"
    /\ Return(create_runway_line(Self, args.length_m,
                                 Get(args._tch_m_unused, Num(0)).n))
    /\ UNCHANGED <<geomVars, layerVars, projectVars, toolVars, fileVars>>

CreateVerticalReferenceLine ==
    /\ pc = "call" /\ op = "create_vertical_reference_line"
    /\ Return(create_vertical_reference_line(Self, args.distance_nm,
                                             args.height_m))
    /\ UNCHANGED <<geomVars, layerVars, projectVars, toolVars, fileVars>>

CalculateGradient ==
    /\ pc = "call" /\ op = "calculate_gradient"
    /\ Return(calculate_gradient(Self, args.point1_nm_ft, args.point2_nm_ft))
    /\ UNCHANGED <<geomVars, layerVars, projectVars, toolVars, fileVars>>

ExtendLineWithGradient ==
    /\ pc = "call" /\ op = "extend_line_with_gradient"
    /\ Return(extend_line_with_gradient(Self, args.start_point_nm_ft,
                                        args.gradient_percent,
                                        args.extend_distance_nm))
    /\ UNCHANGED <<geomVars, layerVars, projectVars, toolVars, fileVars>>

Next ==
    \/ CalculateProfilePoint
    \/ CreateProfileLine
    \/ CreateDistanceMarkers
    \/ CreateOcaBox
    \/ CreateRunwayLine
    \/ CreateVerticalReferenceLine
    \/ CalculateGradient
    \/ ExtendLineWithGradient

Spec == Init /\ [][Next]_vars

----------------------------------------------------------------------------
(* One engine instance over its life: it is constructed, then the caller   *)
(* runs operations on it one after the other.                               *)

InitInstance ==
    /\ origin = None /\ horizontal_scale = None
    /\ vertical_exaggeration = None
    /\ AtRest({"layers", "project", "tool", "files"})
    /\ log = << >>
    /\ op = "__init__"
    /\ \E o \in Origins, ve \in VEArgs :
          args = [origin_point |-> o, vertical_exaggeration |-> ve]
    /\ pc = "call"
    /\ result = Idle

\* ProfileChartGeometry(origin_point, vertical_exaggeration)
Construct ==
    /\ pc = "call" /\ op = "__init__"
    /\ LET g == ProfileChartGeometry(args.origin_point,
                                     args.vertical_exaggeration)
       IN /\ origin' = g.origin
          /\ horizontal_scale' = g.horizontal_scale
          /\ vertical_exaggeration' = g.vertical_exaggeration
    /\ Return(None)
    /\ UNCHANGED <<layerVars, projectVars, toolVars, fileVars>>

\* the caller makes its next call
Invoke(calls) ==
    /\ pc = "done" /\ Len(log) < MaxCalls
    /\ \E c \in calls : op' = c.op /\ args' = c.args
    /\ pc' = "call"
    /\ result' = Idle
    /\ UNCHANGED <<geomVars, layerVars, projectVars, toolVars, fileVars, log>>

InstanceCalls ==
    {Call("calculate_profile_point",
          [distance_nm |-> IntToReal(3), elevation_ft |-> IntToReal(500)]),
     Call("create_profile_line",
          [profile_points |-> <<ProfilePoint(Str("3"), Str("2000"), Missing, "P"),
                                ProfilePoint(Num(0), Str("N/A"), Missing, "P")>>]),
     Call("create_profile_line",
          [profile_points |-> <<ProfilePoint(Str("N/A"), Str("2000"), Missing, "P")>>]),
     Call("create_runway_line",
          [length_m |-> IntToReal(2000), _tch_m_unused |-> Num(IntToReal(15))]),
     Call("create_distance_markers",
          [max_distance_nm |-> 3, marker_height_m |-> Missing]),
     Call("create_distance_markers",
          [max_distance_nm |-> -1, marker_height_m |-> Num(IntToReal(20))]),
     Call("create_vertical_reference_line",
          [distance_nm |-> 1, height_m |-> IntToReal(20)]),
     Call("create_oca_box",
          [start_distance_nm |-> 1, end_distance_nm |-> IntToReal(3),
           height_ft |-> IntToReal(500)]),
     Call("calculate_gradient",
          [point1_nm_ft |-> <<0, 0>>,
           point2_nm_ft |-> <<IntToReal(3), IntToReal(500)>>]),
     Call("extend_line_with_gradient",
          [start_point_nm_ft |-> <<0, IntToReal(500)>>,
           gradient_percent |-> IntToReal(5),
           extend_distance_nm |-> IntToReal(1)])}

NextInstance ==
    \/ Construct
    \/ Invoke(InstanceCalls)
    \/ CalculateProfilePoint
    \/ CreateProfileLine
    \/ CreateDistanceMarkers
    \/ CreateOcaBox
    \/ CreateRunwayLine
    \/ CreateVerticalReferenceLine
    \/ CalculateGradient
    \/ ExtendLineWithGradient

SpecInstance == InitInstance /\ [][NextInstance]_vars

----------------------------------------------------------------------------
(* The profile store: profiles are saved, read, updated and deleted in the *)
(* project, one call after the other.                                      *)

StoredPoint == [point_name |-> "FAF", distance_nm |-> Str("3")]

StoredConfig(runway, profile_points) ==
    [runway |-> runway, profile_points |-> profile_points]

ProfileConfigs ==
    {StoredConfig(PyDict(Str("09")), PyList(<<StoredPoint, StoredPoint>>)),
     StoredConfig(PyDict(Missing), PyList(<<>>)),
     StoredConfig(Missing, Missing),
     StoredConfig(None, PyList(<<StoredPoint>>)),
     StoredConfig(PyDict(Str("09")), None),
     StoredConfig(PyDict(Str("27")), PyTuple(<<StoredPoint>>))}

\* the ids the clock can produce, and one it cannot
ProfileIds == {profile_id_at(t) : t \in 0..MaxClock}

InitProfiles ==
    /\ origin = None /\ horizontal_scale = None
    /\ vertical_exaggeration = None
    /\ AtRest({"layers", "tool", "files"})
    /\ entries = << >>
    /\ clock = 1
    /\ log = << >>
    /\ op = "__init__" /\ args = Idle
    /\ pc = "done"
    /\ result = Idle

\* the call leaves the project as e.project and returns e.result
Apply(e) ==
    /\ entries' = e.project
    /\ Return(e.result)

SaveProfile ==
    /\ pc = "call" /\ op = "save_profile"
    /\ \E now \in {clock, clock + 1} :       \* time.time() * 1000
          /\ now <= MaxClock
          /\ clock' = now
          /\ Apply(save_profile(entries, now, args.profile_name, args.config))
    /\ UNCHANGED <<geomVars, layerVars, toolVars, fileVars>>

GetProfile ==
    /\ pc = "call" /\ op = "get_profile"
    /\ Return(get_profile(entries, args.profile_id))
    /\ UNCHANGED <<geomVars, layerVars, projectVars, toolVars, fileVars>>

GetAllProfiles ==
    /\ pc = "call" /\ op = "get_all_profiles"
    /\ Return(get_all_profiles(entries))
    /\ UNCHANGED <<geomVars, layerVars, projectVars, toolVars, fileVars>>

UpdateProfile ==
    /\ pc = "call" /\ op = "update_profile"
    /\ Apply(update_profile(entries, args.profile_id, args.profile_name,
                            args.config))
    /\ UNCHANGED <<geomVars, layerVars, clock, toolVars, fileVars>>

DeleteProfile ==
    /\ pc = "call" /\ op = "delete_profile"
    /\ Apply(delete_profile(entries, args.profile_id))
    /\ UNCHANGED <<geomVars, layerVars, clock, toolVars, fileVars>>

ProfileCalls ==
    {Call("save_profile", [profile_name |-> "Profile 09", config |-> c]) :
        c \in ProfileConfigs}
    \cup {Call("get_profile", [profile_id |-> i]) : i \in ProfileIds}
    \cup {Call("get_all_profiles", Idle)}
    \cup {Call("update_profile",
                [profile_id |-> profile_id_at(1), profile_name |-> "Profile 27",
                 config |-> c]) :
        c \in {StoredConfig(PyDict(Str("27")), PyList(<<StoredPoint>>)),
                StoredConfig(None, PyList(<<>>))}}
    \cup {Call("delete_profile", [profile_id |-> i]) : i \in ProfileIds}

NextProfiles ==
    \/ Invoke(ProfileCalls)
    \/ SaveProfile
    \/ GetProfile
    \/ GetAllProfiles
    \/ UpdateProfile
    \/ DeleteProfile

SpecProfiles == InitProfiles /\ [][NextProfiles]_vars

----------------------------------------------------------------------------
(* The map tool manager: the plugin activates and deactivates its tool     *)
(* while the user may pick other tools on the canvas.  tool_before records *)
(* the tool the canvas showed when the ProfilePointTool took over, and     *)
(* "NotActivated" while no activation is pending.                          *)

InitTool ==
    /\ origin = None /\ horizontal_scale = None
    /\ vertical_exaggeration = None
    /\ AtRest({"layers", "project", "files"})
    /\ map_tool \in {"None", "pan"}
    /\ tool = "None"
    /\ previous_tool = "None"
    /\ tool_before = "NotActivated"      \* no activation is pending
    /\ log = << >>
    /\ op = "__init__" /\ args = Idle
    /\ pc = "done"
    /\ result = Idle

\* each call leaves the manager and the canvas as m and returns None

CreateTool ==
    LET m == create_tool([tool |-> tool, previous_tool |-> previous_tool],
                         map_tool)
    IN
    /\ pc = "call" /\ op = "create_tool"
    /\ tool' = m.tool
    /\ previous_tool' = m.previous_tool
    /\ map_tool' = m.map_tool
    /\ Return(None)
    /\ UNCHANGED <<geomVars, layerVars, projectVars, tool_before, fileVars>>

ActivateTool ==
    LET m == activate_tool([tool |-> tool, previous_tool |-> previous_tool],
                           map_tool)
    IN
    /\ pc = "call" /\ op = "activate_tool"
    /\ tool' = m.tool
    /\ previous_tool' = m.previous_tool
    /\ map_tool' = m.map_tool
    /\ Return(None)
    /\ tool_before' = IF map_tool = ProfilePointTool
                         /\ tool_before # "NotActivated"
                      THEN tool_before
                      ELSE map_tool
    /\ UNCHANGED <<geomVars, layerVars, projectVars, fileVars>>

DeactivateTool ==
    LET m == deactivate_tool([tool |-> tool, previous_tool |-> previous_tool],
                             map_tool)
    IN
    /\ pc = "call" /\ op = "deactivate_tool"
    /\ tool' = m.tool
    /\ previous_tool' = m.previous_tool
    /\ map_tool' = m.map_tool
    /\ Return(None)
    /\ tool_before' = "NotActivated"
    /\ UNCHANGED <<geomVars, layerVars, projectVars, fileVars>>

Cleanup ==
    LET m == cleanup([tool |-> tool, previous_tool |-> previous_tool],
                     map_tool)
    IN
    /\ pc = "call" /\ op = "cleanup"
    /\ tool' = m.tool
    /\ previous_tool' = m.previous_tool
    /\ map_tool' = m.map_tool
    /\ Return(None)
    /\ tool_before' = IF tool # "None" THEN "NotActivated" ELSE tool_before
    /\ UNCHANGED <<geomVars, layerVars, projectVars, fileVars>>

\* the user picks another tool on the canvas
UserSetMapTool ==
    /\ pc = "call" /\ op = "setMapTool"
    /\ map_tool' = setMapTool(map_tool, args.tool)
    /\ Return(None)
    /\ UNCHANGED <<geomVars, layerVars, projectVars, tool, previous_tool,
                   tool_before, fileVars>>

ToolCalls ==
    {Call(o, Idle) : o \in {"create_tool", "activate_tool",
                            "deactivate_tool", "cleanup"}}
    \cup {Call("setMapTool", [tool |-> t]) : t \in {"pan", "zoom"}}

NextTool ==
    \/ Invoke(ToolCalls)
    \/ CreateTool
    \/ ActivateTool
    \/ DeactivateTool
    \/ Cleanup
    \/ UserSetMapTool

SpecTool == InitTool /\ [][NextTool]_vars

----------------------------------------------------------------------------
(* Configuration files: configurations are saved to paths that may hold a  *)
(* file already.                                                           *)

FileConfigs ==
    LET C(origin_point, reference_point, runway, profile_points) ==
            [origin_point |-> origin_point,
             reference_point |-> reference_point,
             runway |-> runway, profile_points |-> profile_points]
        OriginXY == Mapping({"x", "y"}, 1)
        ReferenceXY == Mapping({"x", "y"}, 2)
        FullRunway ==
            Mapping({"direction", "length", "thr_elevation", "tch_rdh"}, 3)
        OnePoint == PyList(<<StoredPoint>>)
    IN {C(OriginXY, Missing, FullRunway, OnePoint),
        C(Missing, ReferenceXY, FullRunway, PyList(<< >>)),
        C(OriginXY, ReferenceXY, FullRunway, OnePoint),
        C(Mapping({"x"}, 1), ReferenceXY, FullRunway, OnePoint),
        C(Mapping({}, 1), ReferenceXY, FullRunway, OnePoint),
        C(None, ReferenceXY, FullRunway, OnePoint),
        C(OriginXY, Missing, Missing, OnePoint),
        C(OriginXY, Missing, FullRunway, Missing),
        C(Missing, Missing, FullRunway, OnePoint),
        C(Missing, Mapping({"y"}, 2), FullRunway, OnePoint),
        C(OriginXY, Missing, Mapping({"direction", "length"}, 3), OnePoint),
        C(OriginXY, Missing, None, OnePoint),
        C(OriginXY, Missing, FullRunway, PyTuple(<<StoredPoint>>)),
        C(OriginXY, Missing, FullRunway, None),
        C(OriginXY, Missing, FullRunway, PyList(<<PySet>>))}

InitFiles ==
    /\ origin = None /\ horizontal_scale = None
    /\ vertical_exaggeration = None
    /\ AtRest({"layers", "project", "tool"})
    /\ files \in {<< >>, [p \in {"a.json"} |-> [t |-> "text", s |-> "old"]]}
    /\ log = << >>
    /\ op = "__init__" /\ args = Idle
    /\ pc = "done"
    /\ result = Idle

SaveConfig ==
    /\ pc = "call" /\ op = "save_config"
    /\ LET e == save_config(files, args.config, args.filepath)
       IN files' = e.files /\ Return(e.result)
    /\ UNCHANGED <<geomVars, layerVars, projectVars, toolVars>>

NextFiles ==
    \/ /\ Len(log) < MaxSaves
       /\ Invoke({Call("save_config", [config |-> c, filepath |-> p]) :
                     c \in FileConfigs, p \in {"a.json", "b.json"}})
    \/ SaveConfig

SpecFiles == InitFiles /\ [][NextFiles]_vars

----------------------------------------------------------------------------
(* The runway direction validator is run on a value of the caller's        *)
(* choice: two characters, a separator, two characters and what follows.   *)

InitValidators ==
    /\ origin = None /\ horizontal_scale = None
    /\ vertical_exaggeration = None
    /\ AtRest({"layers", "project", "tool", "files"})
    /\ log = << >>
    /\ op = "validate_runway_direction"
    /\ LET digits == {Digit[i] : i \in 1..10}
           texts == {<<a, b, sep, c, d>> \o tail :
                        a \in digits, b \in digits, sep \in {"/", "-"},
                        c \in digits, d \in digits,
                        tail \in {<< >>, <<"\n">>, <<" ">>, <<"\n", "\n">>}}
                    \cup {<< >>, <<"9", "/", "2", "7">>,
                          <<"\n", "0", "9", "/", "2", "7">>,
                          <<"0", "9", "/", "\n", "2", "7">>,
                          <<"0", "9", "/", "2", "x">>}
       IN args \in {[value |-> [t |-> "text", c |-> x]] : x \in texts}
                   \cup {[value |-> v] : v \in {None, Num(0), Num(927)}}
    /\ pc = "call"
    /\ result = Idle

ValidateRunwayDirection ==
    /\ pc = "call" /\ op = "validate_runway_direction"
    /\ Return(validate_runway_direction(args.value))
    /\ UNCHANGED <<geomVars, layerVars, projectVars, toolVars, fileVars>>

SpecValidators == InitValidators /\ [][ValidateRunwayDirection]_vars

----------------------------------------------------------------------------
(* The map tool asks the dock widget for a preview at a candidate origin   *)
(* while the form is in a state of the user's making.                      *)

InitPreview ==
    /\ origin = None /\ horizontal_scale = None
    /\ vertical_exaggeration = None
    /\ AtRest({"layers", "project", "tool", "files"})
    /\ log = << >>
    /\ op = "_generate_profile_preview"
    /\ LET cells == {Missing, Str(""), Str("3"), Str("500"), Str("N/A")}
           rows == {<<Str("FAF"), d, e>> : d \in cells, e \in cells}
                   \cup {<<Missing, Missing, Missing>>,
                         <<Str(""), Str(""), Str("")>>}
           directions == {Missing}
                         \cup {[t |-> "text", c |-> x] :
                                 x \in {<< >>, <<"0", "9", "/", "2", "7">>,
                                        <<"2", "7", "/", "0", "9">>}}
       IN \E o \in Origins, r \in SeqsUpTo(rows, MaxRows),
             l \in {"", "2000", "N/A"}, t \in {" ", "500"},
             dr \in directions, a \in {Missing, Num(0), Num(IntToReal(6))} :
             args = [origin_point |-> o,
                     form |-> [rows |-> r, length |-> l, tch_rdh |-> t,
                               direction |-> dr, axis_max_nm |-> a]]
    /\ pc = "call"
    /\ result = Idle

GenerateProfilePreview ==
    /\ pc = "call" /\ op = "_generate_profile_preview"
    /\ Return(_generate_profile_preview(args.origin_point, args.form))
    /\ UNCHANGED <<geomVars, layerVars, projectVars, toolVars, fileVars>>

SpecPreview == InitPreview /\ [][GenerateProfilePreview]_vars

----------------------------------------------------------------------------
(* The dock widget draws a profile: _create_profile_layers(config) calls   *)
(* create_all_layers and then populate_layers_from_config.                 *)

\* the settings are the project CRS, origin_point, reference_point, runway
\* and style; in a configuration dict a list-valued key that is absent is
\* written as the empty list its .get() default supplies
InitLayers ==
    /\ LET g == ProfileChartGeometry(QgsPointXY(0, 0), None)
       IN /\ origin = g.origin
          /\ horizontal_scale = g.horizontal_scale
          /\ vertical_exaggeration = g.vertical_exaggeration
    /\ layers = << >>
    /\ layer_group = "None"
    /\ AtRest({"project", "tool", "files"})
    /\ log = << >>
    /\ LET GoodSeg == Seg(Num(IntToReal(1)), Num(IntToReal(3)), Num(IntToReal(500)))
           OcaInputs == {Missing, GoodSeg, BadSeg}
           OcaSegmentInputs == {<<>>, <<AltSeg>>}
           MocaSegmentInputs == {<<>>, <<GoodSeg>>, <<BadSeg, AltSeg>>}
           ConfigPoints ==
               {ProfilePoint(d, e, m, "FAF") :
                   d \in {Str("0"), Str("3"), Str("N/A")},
                   e \in {Str("500"), Str("N/A")},
                   m \in {Str(""), Str("500"), Str("abc"), Num(IntToReal(500))}}
           Runway(length) == [length |-> length, tch_rdh |-> Str("1")]
           DrawnStyle == [vertical_exaggeration |-> Num(IntToReal(2)),
                          axis_max_nm |-> Num(IntToReal(6))]
           Settings ==
               LET o == QgsPointXY(IntToReal(1000), IntToReal(2000) * YScale * Den)
                   S(c, op_, rp, rw, st) ==
                       [crs |-> c, origin_point |-> op_, reference_point |-> rp,
                        runway |-> rw, style |-> st]
               IN {S("projected", o, Missing, Runway(Str("2000")), Missing),
                   S("projected", o, Missing, Runway(Str("0")), DrawnStyle),
                   S("projected", Missing, o, Runway(Str("2000")), Missing),
                   S("projected", Missing, Missing, Runway(Str("2000")), Missing),
                   S("projected", o, Missing, Runway(Str("N/A")), Missing),
                   S("geographic", o, Missing, Runway(Str("2000")), Missing),
                   S("invalid", o, Missing, Runway(Str("2000")), Missing)}
           Config(st, pts, oca, oca_segments, moca_segments) ==
               [origin_point |-> st.origin_point, reference_point |-> st.reference_point,
                runway |-> st.runway, style |-> st.style, profile_points |-> pts,
                oca |-> oca, oca_segments |-> oca_segments,
                moca_segments |-> moca_segments]
       IN \E st \in Settings, pts \in SeqsUpTo(ConfigPoints, MaxConfigPoints),
             oca \in OcaInputs, os \in OcaSegmentInputs,
             ms \in MocaSegmentInputs :
            /\ crs = st.crs
            /\ args = [config |-> Config(st, pts, oca, os, ms)]
    /\ op = "_create_profile_layers"
    /\ pc = "call"
    /\ result = Idle

CreateProfileLayers ==
    /\ pc = "call" /\ op = "_create_profile_layers"
    /\ LET created == create_all_layers(layers, crs)
           outcome == populate_layers_from_config(created, crs, args.config)
       IN /\ layers' = IF outcome.returned = "True"
                       THEN add_features(created, outcome)
                       ELSE created
          /\ layer_group' = IF _crs_guard(crs, TRUE) THEN "group"
                            ELSE layer_group
          /\ result' = [create_all_layers |->
                           IF _crs_guard(crs, TRUE) THEN DOMAIN created
                           ELSE {},
                        populate |-> outcome.returned,
                        exc |-> outcome.exc]
    /\ pc' = "done"
    /\ log' = Append(log, [op |-> op, args |-> args, result |-> result'])
    /\ UNCHANGED <<geomVars, crs, projectVars, toolVars, fileVars, op, args>>

NextLayers == CreateProfileLayers

SpecLayers == InitLayers /\ [][NextLayers]_vars

----------------------------------------------------------------------------
(* Properties of the geometry engine *)

Done(o) == pc = "done" /\ op = o

\* the point (distance d, elevation e) is projected to, written out
Projection(d, e) ==
    [x |-> origin.x + d * 1852,
     y |-> origin.y + e * 3048 * vertical_exaggeration]

\* C1: calculate_profile_point(d, e) returns x = origin.x + d*1852 and
\* y = origin.y + e*0.3048*VE; x is independent of e and VE, y of d.
C1_ProjectPoint ==
    Done("calculate_profile_point") =>
        result = Projection(args.distance_nm, args.elevation_ft)

C1_Witness ==
    /\ Done("calculate_profile_point")
    /\ args.distance_nm > 0 /\ args.elevation_ft > 0
    /\ vertical_exaggeration > IntToReal(1)
    /\ result.x > origin.x /\ result.y > origin.y

\* what a profile point's two numeric fields parse to
DistanceOf(p) == float(Get(p.distance_nm, Num(0)))
ElevationOf(p) == float(Get(p.elevation_ft, Num(0)))
Parsable(p) == DistanceOf(p).ok /\ ElevationOf(p).ok

\* position of pts[i] in the ascending-distance order that keeps the input
\* order among equal distances
Rank(pts, i) ==
    1 + Cardinality({j \in 1..Len(pts) :
            \/ DistanceOf(pts[j]).val < DistanceOf(pts[i]).val
            \/ /\ DistanceOf(pts[j]).val = DistanceOf(pts[i]).val
               /\ j < i})

\* line is the projection of every point of pts, in that order
IsOrderedProjection(line, pts) ==
    /\ Len(line) = Len(pts)
    /\ \A i \in 1..Len(pts) :
          line[Rank(pts, i)] =
              Projection(DistanceOf(pts[i]).val, ElevationOf(pts[i]).val)
    /\ \A i, j \in 1..Len(line) : i < j => line[i].x <= line[j].x

\* C2: for points with numeric distance_nm and elevation_ft,
\* create_profile_line returns their projections in ascending distance
\* order, equal distances keeping their input order; empty in, empty out.
C2_SortedStable ==
    (Done("create_profile_line")
       /\ \A i \in 1..Len(args.profile_points) :
              Parsable(args.profile_points[i])) =>
        /\ ~result.raised
        /\ IsOrderedProjection(result.value, args.profile_points)

C2_Witness ==
    LET pts == args.profile_points
    IN /\ Done("create_profile_line")
       /\ Len(pts) = 3
       /\ \A i \in 1..3 : Parsable(pts[i])
       /\ DistanceOf(pts[1]).val > DistanceOf(pts[3]).val
       /\ DistanceOf(pts[1]).val = DistanceOf(pts[2]).val
       /\ ElevationOf(pts[1]).val # ElevationOf(pts[2]).val
       /\ Len(result.value) = 3
       /\ result.value[1].x < result.value[2].x

\* C3: create_profile_line never raises: it omits exactly the points whose
\* distance_nm or elevation_ft does not parse and projects all the others.
C3_NeverRaises ==
    Done("create_profile_line") =>
        /\ ~result.raised
        /\ IsOrderedProjection(result.value,
                               SelectSeq(args.profile_points, Parsable))

\* C4: with every distance_nm numeric and k elevation_ft strings that are
\* not numeric, n points give the n-k projections of the valid points in
\* ascending distance order.
NonNumericString(v) == v.t = "str" /\ ~float(v).ok

C4_DropsBadElevation ==
    LET pts == args.profile_points
        k == Cardinality({i \in 1..Len(pts) :
                             NonNumericString(pts[i].elevation_ft)})
    IN (Done("create_profile_line")
          /\ \A i \in 1..Len(pts) :
                /\ DistanceOf(pts[i]).ok
                /\ ElevationOf(pts[i]).ok
                     \/ NonNumericString(pts[i].elevation_ft)) =>
        /\ ~result.raised
        /\ Len(result.value) = Len(pts) - k
        /\ IsOrderedProjection(result.value, SelectSeq(pts, Parsable))

C4_Witness ==
    LET pts == args.profile_points
    IN /\ Done("create_profile_line")
       /\ Len(pts) = 3
       /\ \A i \in 1..3 : DistanceOf(pts[i]).ok
       /\ pts[2].elevation_ft = Str("N/A")
       /\ ElevationOf(pts[1]).ok /\ ElevationOf(pts[3]).ok
       /\ DistanceOf(pts[1]).val > DistanceOf(pts[3]).val
       /\ ~result.raised
       /\ Len(result.value) = 2

\* the mathematical floor of a real, as the statement of C8 uses it
floor(r) == r \div Den

\* decimal numerals, written out
DecimalString == <<"0", "1", "2", "3", "4", "5", "6", "7", "8", "9", "10">>

\* C8: create_distance_markers returns one marker for each integer i with
\* 0 <= i <= floor(max_distance_nm), ascending, 'distance' = i and
\* 'label' = the decimal string of i; none when max_distance_nm < 0.
C8_MarkersToFloor ==
    Done("create_distance_markers") =>
        /\ Len(result) = (IF args.max_distance_nm < 0 THEN 0
                          ELSE floor(args.max_distance_nm) + 1)
        /\ \A k \in 1..Len(result) :
              /\ result[k].distance = k - 1
              /\ result[k].label = DecimalString[k]

\* C9: every marker's geometry is [bottom, top] at x = origin.x + i*1852,
\* bottom on the baseline and top at origin.y - h*VE.
C9_MarkerGeometry ==
    Done("create_distance_markers") =>
        LET h == Get(args.marker_height_m, Num(IntToReal(200))).n
        IN \A k \in 1..Len(result) :
             LET m == result[k]
                 x == origin.x + IntToReal(m.distance) * 1852
             IN /\ Len(m.geometry) = 2
                /\ m.geometry[1] = [x |-> x, y |-> origin.y]
                /\ m.geometry[2] =
                      [x |-> x,
                       y |-> origin.y - h * vertical_exaggeration * YScale]
                /\ m.geometry[1].y - m.geometry[2].y =
                      h * vertical_exaggeration * YScale

C9_Witness ==
    /\ Done("create_distance_markers")
    /\ Len(result) = 3
    /\ result[3].geometry[2].y < origin.y
    /\ result[3].geometry[1].x > origin.x

\* C10: create_oca_box returns the 5 vertices bottom-left, bottom-right,
\* top-right, top-left, bottom-left, the corners being the projections of
\* (from, 0), (to, 0), (to, height) and (from, height).
C10_OcaBox ==
    Done("create_oca_box") =>
        /\ Len(result) = 5
        /\ result[1] = calculate_profile_point(Self, args.start_distance_nm, 0)
        /\ result[2] = calculate_profile_point(Self, args.end_distance_nm, 0)
        /\ result[3] = calculate_profile_point(Self, args.end_distance_nm,
                                               args.height_ft)
        /\ result[4] = calculate_profile_point(Self, args.start_distance_nm,
                                               args.height_ft)
        /\ result[5] = result[1]

C10_Witness ==
    /\ Done("create_oca_box")
    /\ args.start_distance_nm < args.end_distance_nm
    /\ args.height_ft > 0
    /\ result[1] # result[2] /\ result[2] # result[3]
    /\ result[3] # result[4] /\ result[4] # result[1]

\* C11: calculate_gradient(p1, p2) returns exactly 0.0 when the two points
\* have equal distance_nm, whatever their elevations, and otherwise
\* ((e2-e1)*0.3048 / ((d2-d1)*1852)) * 100.
C11_Gradient ==
    Done("calculate_gradient") =>
        LET d1 == args.point1_nm_ft[1]
            e1 == args.point1_nm_ft[2]
            d2 == args.point2_nm_ft[1]
            e2 == args.point2_nm_ft[2]
        IN IF d1 = d2 THEN result = [num |-> 0, den |-> 1]
           ELSE /\ result.den > 0
                \* result = ((e2-e1)*3048/YScale) / ((d2-d1)*1852) * 100
                /\ WMul(W(result.num), W((d2 - d1) * 1852 * YScale))
                     = WMul(W(result.den), W((e2 - e1) * 3048 * 100))

C11_Witness ==
    /\ Done("calculate_gradient")
    /\ args.point1_nm_ft[1] = args.point2_nm_ft[1]
    /\ args.point1_nm_ft[2] # args.point2_nm_ft[2]
    /\ result.num = 0

\* C12: extend_line_with_gradient(start, g, ext_nm) returns
\* calculate_profile_point(start_d + ext_nm, start_e + delta_ft) with
\* delta_ft = (g/100 * ext_nm*1852) / 0.3048, that is the point
\* x = origin.x + (start_d + ext_nm)*1852,
\* y = origin.y + (start_e*0.3048 + g/100 * ext_nm*1852) * VE.
C12_ExtendInverse ==
    Done("extend_line_with_gradient") =>
        LET start_d == args.start_point_nm_ft[1]
            start_e == args.start_point_nm_ft[2]
            g == args.gradient_percent
            ext_nm == args.extend_distance_nm
        IN /\ result.x = origin.x + (start_d + ext_nm) * 1852
           /\ result.y =
                WAdd(WMul(W(origin.y), W(FtScale \div Den)),
                     WMul(WAdd(WMul(W(start_e * 3048), W(FtScale \div Den)),
                               WMul(W(g * ext_nm * 1852),
                                    W(YScale * MScale))),
                          W(vertical_exaggeration)))

\* C13: create_runway_line(length_m, tch) returns [start, end] with
\* end = origin and start = (origin.x - length_m, origin.y), whatever the
\* TCH argument and VE.
C13_RunwayLine ==
    Done("create_runway_line") =>
        result = <<[x |-> origin.x - args.length_m, y |-> origin.y],
                   [x |-> origin.x, y |-> origin.y]>>

C13_Witness ==
    /\ Done("create_runway_line")
    /\ args.length_m > 0
    /\ args._tch_m_unused = Num(IntToReal(15))
    /\ vertical_exaggeration > IntToReal(1)
    /\ result[1].x < result[2].x

\* C14: a constructed ProfileChartGeometry stores VE >= 1.0: 10.0 when the
\* argument is omitted, None or 0, the argument when it is >= 1.0, and 1.0
\* when it is positive and below 1.0; the horizontal scale is 1.0.
C14_ConstructorVE ==
    Done("__init__") =>
        LET a == args.vertical_exaggeration
        IN /\ vertical_exaggeration >= IntToReal(1)
           /\ horizontal_scale = 1
           /\ a \in {Missing, None, Num(0)} =>
                  vertical_exaggeration = IntToReal(10)
           /\ (a.t = "num" /\ a.n >= IntToReal(1)) =>
                  vertical_exaggeration = a.n
           /\ (a.t = "num" /\ a.n > 0 /\ a.n < IntToReal(1)) =>
                  vertical_exaggeration = IntToReal(1)

C14_Witness ==
    /\ Done("__init__")
    /\ args.vertical_exaggeration = Num(1)
    /\ vertical_exaggeration = IntToReal(1)

\* what operation o returns on arguments a when it is the only call made on
\* a fresh instance constructed with the arguments ctor
Isolated(ctor, o, a) ==
    LET fresh == ProfileChartGeometry(ctor.origin_point,
                                      ctor.vertical_exaggeration)
    IN CASE o = "calculate_profile_point" ->
              calculate_profile_point(fresh, a.distance_nm, a.elevation_ft)
         [] o = "create_profile_line" ->
              create_profile_line(fresh, a.profile_points)
         [] o = "create_runway_line" ->
              create_runway_line(fresh, a.length_m,
                                 Get(a._tch_m_unused, Num(0)).n)
         [] o = "create_distance_markers" ->
              create_distance_markers(
                  fresh, a.max_distance_nm,
                  Get(a.marker_height_m,
                      Num(IntToReal(DEFAULT_MARKER_HEIGHT_M))).n)
         [] o = "create_vertical_reference_line" ->
              create_vertical_reference_line(fresh, a.distance_nm, a.height_m)
         [] o = "create_oca_box" ->
              create_oca_box(fresh, a.start_distance_nm, a.end_distance_nm,
                             a.height_ft)
         [] o = "calculate_gradient" ->
              calculate_gradient(fresh, a.point1_nm_ft, a.point2_nm_ft)
         [] o = "extend_line_with_gradient" ->
              extend_line_with_gradient(fresh, a.start_point_nm_ft,
                                        a.gradient_percent,
                                        a.extend_distance_nm)

\* C15: no operation changes origin, vertical_exaggeration or
\* horizontal_scale: after any sequence of calls the instance is as
\* constructed and every call has returned what it returns in isolation.
C15_NoMutation ==
    Len(log) >= 1 =>
        /\ Self = ProfileChartGeometry(log[1].args.origin_point,
                                       log[1].args.vertical_exaggeration)
        /\ \A k \in 2..Len(log) :
              log[k].result = Isolated(log[1].args, log[k].op, log[k].args)

C15_Witness ==
    /\ Len(log) = 3
    /\ log[2].op = "create_distance_markers"
    /\ log[3].op = "extend_line_with_gradient"
    /\ log[1].args.vertical_exaggeration = Num(IntToReal(2))
    /\ vertical_exaggeration = IntToReal(2)

----------------------------------------------------------------------------
(* Properties of the layer population *)

Drawn == pc = "done" /\ op = "_create_profile_layers"

\* the features the MOCA layer holds after the call
MocaLayerFeatures ==
    IF HasLayer(layers, LAYER_MOCA) THEN layers[LAYER_MOCA] ELSE <<>>

IsOcaPolygon(f) == f.label.fmt = "OCA {d1}-{d2}NM"
IsExplicitMocaPolygon(f) == f.label.fmt = "{d1}-{d2}NM"
IsPerPointMocaPolygon(f) == f.label.fmt = "{p1} - {p2}"

\* C5: with an 'oca' or 'oca_segments' configured, only OCA polygons reach
\* the MOCA layer, whatever moca_segments and the points' moca_ft are.
C5_OcaSuppressesMoca ==
    (Drawn /\ HasOca(args.config)) =>
        \A k \in 1..Len(MocaLayerFeatures) :
            IsOcaPolygon(MocaLayerFeatures[k])

\* the consecutive pairs whose earlier point carries a non-empty numeric
\* moca_ft
MocaPairs(pts) ==
    {i \in 1..(Len(pts) - 1) :
        LET m == Get(pts[i].moca_ft, Str(""))
        IN m.t = "str" /\ m.s \notin Blank /\ float(m).ok}

\* C6: without OCA and explicit moca_segments, a population that succeeds
\* adds exactly one MOCA polygon per consecutive pair whose earlier point
\* has a non-empty numeric moca_ft, and no other.
C6_OnePolygonPerPair ==
    (Drawn /\ result.populate = "True"
       /\ ~HasOca(args.config) /\ ~HasExplicitMoca(args.config)) =>
        /\ Len(MocaLayerFeatures) =
              Cardinality(MocaPairs(args.config.profile_points))
        /\ \A k \in 1..Len(MocaLayerFeatures) :
              IsPerPointMocaPolygon(MocaLayerFeatures[k])

\* the explicit segments all three of whose numbers parse
ParsableSegments(config) == SelectSeq(config.moca_segments, SegParsable)

\* the MOCA layer holds one polygon per parsable explicit segment, spanning
\* the segment's distances at its height, and nothing else
OnePolygonPerSegment(config) ==
    LET segs == ParsableSegments(config)
        o == Get(config.origin_point, config.reference_point)
    IN /\ Len(MocaLayerFeatures) = Len(segs)
       /\ \A k \in 1..Len(segs) :
             LET f == MocaLayerFeatures[k]
                 d1 == Get(segs[k].from_nm, segs[k].from).n
                 d2 == Get(segs[k].to_nm, segs[k].to).n
                 h == Get(segs[k].h_ft, segs[k].height_ft).n
             IN /\ IsExplicitMocaPolygon(f)
                /\ f.height = h
                /\ Len(f.geometry) = 5
                /\ f.geometry[1].x = o.x + d1 * 1852
                /\ f.geometry[3].x = o.x + d2 * 1852
                /\ f.geometry[1].y = o.y
                /\ f.geometry[3].y - o.y > 0

\* C7 as stated: without OCA and with explicit moca_segments, the call
\* adds exactly one MOCA polygon per parsable explicit segment and none
\* from the points' moca_ft.
C7_ExplicitOnly_AsStated ==
    (Drawn /\ ~HasOca(args.config) /\ HasExplicitMoca(args.config)) =>
        OnePolygonPerSegment(args.config)

\* C7, amended: without OCA and with explicit moca_segments, a call that
\* returns True adds exactly one MOCA polygon per parsable explicit segment
\* and none from the points' moca_ft; a call that returns False or raises
\* adds no MOCA polygon.
C7_ExplicitOnly ==
    (Drawn /\ ~HasOca(args.config) /\ HasExplicitMoca(args.config)) =>
        IF result.populate = "True"
        THEN OnePolygonPerSegment(args.config)
        ELSE MocaLayerFeatures = <<>>

C7_Witness ==
    /\ Drawn
    /\ ~HasOca(args.config)
    /\ args.config.moca_segments = <<BadSeg, AltSeg>>
    /\ MocaPairs(args.config.profile_points) # {}
    /\ result.populate = "True"
    /\ Len(MocaLayerFeatures) = 1
    /\ IsExplicitMocaPolygon(MocaLayerFeatures[1])

\* the features the line layer holds after the call
LineLayerFeatures ==
    IF HasLayer(layers, LAYER_LINE) THEN layers[LAYER_LINE] ELSE <<>>

\* the configured points both of whose numeric fields parse
ProjectedPoints ==
    {i \in 1..Len(args.config.profile_points) :
        Parsable(args.config.profile_points[i])}

\* C16: a 'profile' line feature is added only when at least 2 profile
\* points were projected; with fewer survivors there is none.
C16_LineNeedsTwoPoints ==
    Drawn =>
        \A k \in 1..Len(LineLayerFeatures) :
            LineLayerFeatures[k].symbol = "profile" =>
                Cardinality(ProjectedPoints) >= 2

----------------------------------------------------------------------------
(* Properties of the profile store *)

\* the list entry save_profile is to append for the id it returned
SavedEntry(e, profile_id) ==
    /\ e.id = profile_id
    /\ e.name = args.profile_name
    /\ e.runway_direction =
          (IF args.config.runway.t = "dict"
           THEN Get(args.config.runway.direction, Str("N/A"))
           ELSE Str("N/A"))
    /\ e.point_count =
          (IF args.config.profile_points.t \in {"list", "tuple"}
           THEN Len(args.config.profile_points.items)
           ELSE 0)

\* C17: for every configuration, save_profile returns an id under which
\* get_profile at once returns a value equal to the configuration, and
\* get_all_profiles has gained exactly one entry, appended, with that id,
\* the name, the runway direction (or 'N/A') and the point count, the
\* earlier entries being unchanged and in order.
C17_SaveThenGet ==
    [][(pc = "call" /\ op = "save_profile") =>
          LET before == get_all_profiles(entries)
              after == get_all_profiles(entries')
          IN /\ ~result'.raised
             /\ get_profile(entries', result'.value) = args.config
             /\ Len(after) = Len(before) + 1
             /\ SubSeq(after, 1, Len(before)) = before
             /\ SavedEntry(after[Len(after)], result'.value)]_vars

\* C18: delete_profile(id) returns True, stored or not; afterwards
\* get_profile(id) is None and no list entry has the id, while every other
\* profile's stored configuration and list entry are unchanged and the
\* remaining entries keep their order.
C18_DeleteOnlyThat ==
    [][(pc = "call" /\ op = "delete_profile") =>
          LET before == get_all_profiles(entries)
              after == get_all_profiles(entries')
          IN /\ result' = Returned("True")
             /\ get_profile(entries', args.profile_id) = None
             /\ \A k \in 1..Len(after) : after[k].id # args.profile_id
             /\ after = SelectSeq(before,
                                  LAMBDA p : p.id # args.profile_id)
             /\ \A i \in ProfileIds \ {args.profile_id} :
                   get_profile(entries', i) = get_profile(entries, i)]_vars

\* a profile that was saved has been deleted and another one is left
C18_Witness ==
    /\ Len(log) = 3
    /\ log[1].op = "save_profile" /\ ~log[1].result.raised
    /\ log[2].op = "save_profile" /\ ~log[2].result.raised
    /\ log[2].result.value # log[1].result.value
    /\ log[3].op = "delete_profile"
    /\ log[3].args.profile_id = log[1].result.value
    /\ Len(get_all_profiles(entries)) = 1
    /\ get_profile(entries, log[2].result.value) # None

\* C24: the id save_profile returns is the id of no profile stored before
\* the call, whatever the clock read (the same millisecond as the save
\* before included); so the call leaves every other profile's stored
\* configuration as it was and the list never holds an id twice.
C24_FreshId ==
    [][(pc = "call" /\ op = "save_profile") =>
          LET before == get_all_profiles(entries)
              after == get_all_profiles(entries')
          IN /\ ~result'.raised =>
                  /\ \A k \in 1..Len(before) : before[k].id # result'.value
                  /\ (PROFILE_PREFIX \o result'.value) \notin DOMAIN entries
             /\ \A key \in DOMAIN entries \ {PROFILE_LIST_KEY} :
                   entries'[key] = entries[key]
             /\ \A i, j \in 1..Len(after) :
                   after[i].id = after[j].id => i = j]_vars

\* C25: whatever save_profile, update_profile and delete_profile calls were
\* made, with ids stored, never saved or deleted, the ids get_all_profiles
\* lists are the ids for which get_profile returns a configuration.
C25_ListedIffStored ==
    LET profiles == get_all_profiles(entries)
    IN \A i \in ProfileIds :
          (\E k \in 1..Len(profiles) : profiles[k].id = i)
             <=> get_profile(entries, i) # None

----------------------------------------------------------------------------
(* Properties of the map tool manager *)

\* C19: after deactivate_tool the canvas shows the tool that was active
\* before the ProfilePointTool was activated (the ProfilePointTool is not
\* active when there was none) and previous_tool is None, however many
\* activate_tool calls preceded it.
C19_DeactivateRestores ==
    [][(pc = "call" /\ op = "deactivate_tool"
          /\ tool_before # "NotActivated") =>
          /\ previous_tool' = "None"
          /\ IF tool_before = "None" THEN map_tool' # ProfilePointTool
             ELSE map_tool' = tool_before]_vars

----------------------------------------------------------------------------
(* Properties of the configuration files *)

\* the checks as the claim words them
HasXY(p) == p.t = "mapping" /\ {"x", "y"} \subseteq p.keys
FailsChecks(c) ==
    \/ c.runway = Missing \/ c.profile_points = Missing
    \/ ~(HasXY(c.origin_point) \/ HasXY(c.reference_point))
    \/ ~(c.runway.t = "mapping"
           /\ {"direction", "length", "thr_elevation", "tch_rdh"}
                 \subseteq c.runway.keys)
    \/ c.profile_points.t # "list"

\* C20: save_config raises ValueError and leaves every file as it was when
\* the config lacks runway or profile_points, has neither an origin_point
\* nor a reference_point dict with both x and y, lacks a runway key or has
\* profile_points that are no list; for every other config the target file
\* is written and holds one of the config's x/y dicts under both
\* origin_point and reference_point.
C20_SaveConfig ==
    [][(pc = "call" /\ op = "save_config") =>
          LET c == args.config
              p == args.filepath
          IN IF FailsChecks(c)
             THEN result' = Raised("ValueError") /\ files' = files
             ELSE /\ p \in DOMAIN files'
                  /\ files'[p].t = "json"
                  /\ files'[p].data.origin_point
                        = files'[p].data.reference_point
                  /\ \E q \in {c.origin_point, c.reference_point} :
                        /\ HasXY(q)
                        /\ files'[p].data.origin_point = json_text(q)]_vars

----------------------------------------------------------------------------
(* Properties of the CRS guard *)

\* C21: when the project CRS is geographic or invalid, create_all_layers
\* returns an empty dict and creates neither the layer group nor a layer,
\* and populate_layers_from_config returns False and adds no feature.
C21_CrsBlocks ==
    [][(pc = "call" /\ op = "_create_profile_layers"
          /\ crs \in {"geographic", "invalid"}) =>
          /\ result'.create_all_layers = {}
          /\ layer_group' = layer_group
          /\ layers' = layers
          /\ result'.populate = "False"
          /\ result'.exc = ""]_vars

C21_Witness ==
    /\ pc = "done" /\ op = "_create_profile_layers"
    /\ crs = "geographic"
    /\ args.config.origin_point # Missing
    /\ Len(args.config.profile_points) >= 2
    /\ result.populate = "False"
    /\ layers = << >>

----------------------------------------------------------------------------
(* Properties of the validators *)

\* the strings NN/NN with both numbers in 01..36 and the second the
\* reciprocal of the first
IsReciprocalPair(v) ==
    /\ v.t = "text" /\ Len(v.c) = 5 /\ v.c[3] = "/"
    /\ \E n1 \in 1..36 :
          LET n2 == ((n1 + 17) % 36) + 1
              NN(n) == <<Digit[(n \div 10) + 1], Digit[(n % 10) + 1]>>
          IN v.c = NN(n1) \o <<"/">> \o NN(n2)

\* C22: validate_runway_direction(v) returns (True, "") exactly when v is a
\* string NN/NN with both numbers in 01..36 and the second the reciprocal
\* of the first; A/B is accepted exactly when B/A is; every other value
\* yields (False, message) with a non-empty message.
C22_RunwayDirection ==
    [][(pc = "call" /\ op = "validate_runway_direction") =>
          LET v == args.value
          IN /\ IF IsReciprocalPair(v) THEN result' = <<TRUE, "">>
                ELSE result'[1] = FALSE /\ result'[2] # ""
             /\ (v.t = "text" /\ Len(v.c) = 5) =>
                   LET swapped == [v EXCEPT !.c = <<v.c[4], v.c[5], v.c[3],
                                                    v.c[1], v.c[2]>>]
                   IN result'[1] = validate_runway_direction(swapped)[1]]_vars

----------------------------------------------------------------------------
(* Properties of the preview *)

\* a row of the points table with numeric distance and elevation
NumericRow(row) ==
    /\ row[2] # Missing /\ row[2].s \in DOMAIN NumericLiteral
    /\ row[3] # Missing /\ row[3].s \in DOMAIN NumericLiteral

\* C23: for every candidate origin and form state the preview is a dict
\* with the keys profile_line, baseline, grid_segments and tick_segments,
\* and its profile_line is non-empty when the points table holds a row
\* with numeric distance and elevation.
C23_PreviewKeys ==
    [][(pc = "call" /\ op = "_generate_profile_preview") =>
          /\ {"profile_line", "baseline", "grid_segments", "tick_segments"}
                \subseteq DOMAIN result'
          /\ (\E i \in DOMAIN args.form.rows : NumericRow(args.form.rows[i]))
                => result'.profile_line # << >>]_vars

====
